---- MODULE Spec2Model ----
(***************************************************************************)
(* A model of gdext-generation: the target catalogs (features/), the       *)
(* libraries section (gdext/libs.rs), the icons section and its base class *)
(* scanner (gdext/icons.rs), the dependencies section (gdext/deps.rs) and  *)
(* generate_gdextension_file (lib.rs).                                     *)
(*                                                                         *)
(* A Rust String is a sequence of one-character strings, so that replace,  *)
(* trim, contains and the regular expressions act on characters.           *)
(***************************************************************************)
EXTENDS Integers, Sequences, FiniteSets, TLC

VARIABLES
    call,                \* the last call of a catalog function: [op, arg, ret]
    host,                \* the platform the build script runs on: "unix" or "windows"
    base_dir,            \* generate_libs: base_dir
    lib_name,            \* generate_libs: lib_name
    windows_abi,         \* generate_libs: windows_abi
    target_dir,          \* generate_libs: target_dir
    libraries,           \* GDExtension.libraries, a map from key to path
    system_i,            \* generate_libs: position of the loop over the systems
    arch_i,              \* generate_libs: position of the loop over the architectures
    mode_i,              \* generate_libs: position of the loop over the modes
    libs_pc,             \* generate_libs: "idle", "loop" or "done"
    scan_pc,             \* find_children: "idle", "glob", "lines", "ok", "err", "panicked"
    units_read,          \* find_children: number of source files opened
    unit_lines,          \* find_children: the lines read from the current file
    base_class,          \* find_children: base_class
    found_base,          \* find_children: found_base
    base_class_to_nodes, \* find_children: base_class_to_nodes
    sources,             \* the files glob("./src/**/*.rs") yields, each a sequence of lines
    icons_config,        \* generate_icons: icons_config
    icons,               \* generate_icons: the local table icons
    self_icons,          \* GDExtension.icons: NoIcons or a table
    infer_left,          \* generate_icons: the keys of base_class_to_nodes not yet visited
    nodes_rust,          \* generate_icons: the indices of the files still to copy
    assets,              \* the files of path_node_rust, by index of NODES_RUST_FILENAMES
    icons_pc,            \* generate_icons: "idle", "start", "scan", "infer", "custom",
                         \* "copy", "ok", "err"
    feature,             \* the generation feature of the build: "none", "checked", "forced"
    force_generation,    \* generate_gdextension_file: force_generation
    gdextension_path,    \* generate_gdextension_file: gdextension_path
    icons_configuration, \* generate_gdextension_file: icons_configuration
    dependencies_option, \* generate_gdextension_file: dependencies
    manifest_file,       \* the file at gdextension_path
    toml_string,         \* generate_gdextension_file: toml_string
    result,              \* what generate_gdextension_file returned
    run_pc,              \* generate_gdextension_file: the step it is at
    dependencies,        \* generate_deps: dependencies
    deps_left,           \* generate_deps: the targets of dependencies not yet visited
    dependencies_vector, \* generate_deps: dependencies_vector
    deps_pc              \* generate_deps: "idle", "loop", "ok", "panicked"

vars == <<call, host, base_dir, lib_name, windows_abi, target_dir, libraries,
          system_i, arch_i, mode_i, libs_pc,
          scan_pc, units_read, unit_lines, base_class, found_base,
          base_class_to_nodes,
          sources, icons_config, icons, self_icons, infer_left, nodes_rust, assets,
          icons_pc,
          feature, force_generation, gdextension_path, icons_configuration,
          dependencies_option, manifest_file, toml_string, result, run_pc,
          dependencies, deps_left, dependencies_vector, deps_pc>>

catalog_vars == <<call>>

libs_vars == <<host, base_dir, lib_name, windows_abi, target_dir, libraries,
               system_i, arch_i, mode_i, libs_pc>>

scan_vars == <<scan_pc, units_read, unit_lines, base_class, found_base,
               base_class_to_nodes>>

icons_vars == <<sources, icons_config, icons, self_icons, infer_left, nodes_rust,
                assets, icons_pc>>

run_vars == <<feature, force_generation, gdextension_path, icons_configuration,
              dependencies_option, manifest_file, toml_string, result, run_pc>>

deps_vars == <<dependencies, deps_left, dependencies_vector, deps_pc>>

-----------------------------------------------------------------------------
(* Strings *)

Range(s) == {s[i] : i \in 1..Len(s)}

\* str::starts_with
StartsWith(s, p) == Len(p) <= Len(s) /\ SubSeq(s, 1, Len(p)) = p

\* whether pattern p occurs in s at position i
OccursAt(s, p, i) == i >= 1 /\ i + Len(p) - 1 <= Len(s) /\ SubSeq(s, i, i + Len(p) - 1) = p

\* str::contains
Contains(s, p) == \E i \in 1..(Len(s) + 1) : OccursAt(s, p, i)

\* str::replace(c, to) for one character c: every c becomes the string `to`
RECURSIVE ReplaceChar(_, _, _)
ReplaceChar(s, c, to) ==
    IF s = <<>> THEN <<>>
    ELSE (IF Head(s) = c THEN to ELSE <<Head(s)>>) \o ReplaceChar(Tail(s), c, to)

\* str::replace(p, to) for a non-empty pattern p: the non-overlapping
\* occurrences of p, found from left to right, become `to`
RECURSIVE ReplaceStr(_, _, _)
ReplaceStr(s, p, to) ==
    IF s = <<>> THEN <<>>
    ELSE IF OccursAt(s, p, 1)
         THEN to \o ReplaceStr(SubSeq(s, Len(p) + 1, Len(s)), p, to)
         ELSE <<Head(s)>> \o ReplaceStr(Tail(s), p, to)

-----------------------------------------------------------------------------
(* features/arch.rs *)

Architectures == {"X86_32", "X86_64", "Armv7", "Arm64", "Rv64", "Wasm32", "Generic"}

Architecture_get_rust_name(a) ==
    CASE a = "X86_32" -> <<"i","6","8","6">>
      [] a = "X86_64" -> <<"x","8","6","_","6","4">>
      [] a = "Armv7" -> <<"a","r","m","v","7">>
      [] a = "Arm64" -> <<"a","a","r","c","h","6","4">>
      [] a = "Rv64" -> <<"r","i","s","c","v","6","4","g","c">>
      [] a = "Wasm32" -> <<"w","a","s","m","3","2">>
      [] a = "Generic" -> <<>>

\* Armv7 and Arm64 share one name
Architecture_get_godot_name_arm(a) ==
    CASE a = "X86_32" -> <<"x","8","6","_","3","2">>
      [] a = "X86_64" -> <<"x","8","6","_","6","4">>
      [] a = "Armv7" -> <<"a","r","m","_","6","4">>
      [] a = "Arm64" -> <<"a","r","m","_","6","4">>
      [] a = "Rv64" -> <<"r","v","_","6","4">>
      [] a = "Wasm32" -> <<"w","a","s","m","3","2">>
      [] a = "Generic" -> <<>>

Architecture_get_godot_name(a) ==
    CASE a = "X86_32" -> <<"x","8","6","_","3","2">>
      [] a = "X86_64" -> <<"x","8","6","_","6","4">>
      [] a = "Armv7" -> <<"a","r","m","_","3","2">>
      [] a = "Arm64" -> <<"a","r","m","_","6","4">>
      [] a = "Rv64" -> <<"r","v","_","6","4">>
      [] a = "Wasm32" -> <<"w","a","s","m","3","2">>
      [] a = "Generic" -> <<>>

-----------------------------------------------------------------------------
(* features/mode.rs *)

Modes == {"Debug", "Release", "Editor"}

get_modes == <<"Debug", "Release", "Editor">>

\* Editor builds get a target folder of their own
\* the Editor built with the release profile
Mode_get_rust_name_release(m) ==
    CASE m = "Debug" -> <<"d","e","b","u","g">>
      [] m \in {"Editor", "Release"} -> <<"r","e","l","e","a","s","e">>

Mode_get_rust_name_editor(m) ==
    CASE m = "Debug" -> <<"d","e","b","u","g">>
      [] m = "Editor" -> <<"e","d","i","t","o","r">>
      [] m = "Release" -> <<"r","e","l","e","a","s","e">>

Mode_get_rust_name(m) ==
    CASE m \in {"Debug", "Editor"} -> <<"d","e","b","u","g">>
      [] m = "Release" -> <<"r","e","l","e","a","s","e">>

Mode_get_godot_name(m) ==
    CASE m = "Debug" -> <<"d","e","b","u","g">>
      [] m = "Release" -> <<"r","e","l","e","a","s","e">>
      [] m = "Editor" -> <<"e","d","i","t","o","r">>

-----------------------------------------------------------------------------
(* features/sys.rs *)

WindowsABIs == {"MSVC", "MinGW", "LLVM"}

WindowsABI_get_rust_name(abi) ==
    CASE abi = "MSVC" -> <<"m","s","v","c">>
      [] abi = "MinGW" -> <<"g","n","u">>
      [] abi = "LLVM" -> <<"g","n","u","l","l","v","m">>

\* A System is a tag and, for Windows, the ABI it carries.
NoABI == "-"

Sys(tag) == [tag |-> tag, abi |-> NoABI]

Windows(abi) == [tag |-> "Windows", abi |-> abi]

Systems == {Sys(t) : t \in {"Android", "IOS", "Linux", "MacOS", "Web"}}
               \cup {Windows(abi) : abi \in WindowsABIs}

get_systems(abi) ==
    <<Sys("Android"), Sys("IOS"), Sys("Linux"), Sys("MacOS"), Sys("Web"), Windows(abi)>>

\* the Web list without its generic entry
get_architectures_web(s) ==
    CASE s.tag = "Android" -> <<"Generic", "Armv7", "Arm64", "X86_32", "X86_64">>
      [] s.tag = "IOS" -> <<"Generic", "Arm64">>
      [] s.tag = "Linux" -> <<"Generic", "Arm64", "Rv64", "X86_64">>
      [] s.tag = "MacOS" -> <<"Generic", "Arm64", "X86_64">>
      [] s.tag = "Web" -> <<"Wasm32">>
      [] s.tag = "Windows" -> <<"Generic", "Arm64", "X86_32", "X86_64">>

get_architectures(s) ==
    CASE s.tag = "Android" -> <<"Generic", "Armv7", "Arm64", "X86_32", "X86_64">>
      [] s.tag = "IOS" -> <<"Generic", "Arm64">>
      [] s.tag = "Linux" -> <<"Generic", "Arm64", "Rv64", "X86_64">>
      [] s.tag = "MacOS" -> <<"Generic", "Arm64", "X86_64">>
      [] s.tag = "Web" -> <<"Generic", "Wasm32">>
      [] s.tag = "Windows" -> <<"Generic", "Arm64", "X86_32", "X86_64">>

System_get_name(s) ==
    CASE s.tag = "Android" -> <<"a","n","d","r","o","i","d">>
      [] s.tag = "IOS" -> <<"i","o","s">>
      [] s.tag = "Linux" -> <<"l","i","n","u","x">>
      [] s.tag = "MacOS" -> <<"m","a","c","o","s">>
      [] s.tag = "Web" -> <<"w","e","b">>
      [] s.tag = "Windows" -> <<"w","i","n","d","o","w","s">>

\* Android libraries with the lib in front, as the comment of the source considers
get_lib_export_name_android(s, name) ==
    (IF s.tag \in {"IOS", "Linux", "MacOS", "Android"} THEN <<"l","i","b">> ELSE <<>>)
    \o name \o <<".">> \o
    (CASE s.tag \in {"Android", "Linux"} -> <<"s","o">>
       [] s.tag = "IOS" -> <<"i","o","s",".","f","r","a","m","e","w","o","r","k">>
       [] s.tag = "MacOS" -> <<"d","y","l","i","b">>
       [] s.tag = "Web" -> <<"w","a","s","m">>
       [] s.tag = "Windows" -> <<"d","l","l">>)

get_lib_export_name(s, name) ==
    (CASE s.tag \in {"IOS", "Linux", "MacOS"} -> <<"l","i","b">>
       [] s.tag \in {"Android", "Windows", "Web"} -> <<>>)
    \o name \o <<".">> \o
    (CASE s.tag \in {"Android", "Linux"} -> <<"s","o">>
       [] s.tag = "IOS" -> <<"i","o","s",".","f","r","a","m","e","w","o","r","k">>
       [] s.tag = "MacOS" -> <<"d","y","l","i","b">>
       [] s.tag = "Web" -> <<"w","a","s","m">>
       [] s.tag = "Windows" -> <<"d","l","l">>)

-----------------------------------------------------------------------------
(* features/target.rs: Target(System, Mode, Architecture), t[1] is self.0 *)

Targets == Systems \X Modes \X Architectures

\* the eabi suffix given to every ARM architecture
get_rust_target_triple_arm(t) ==
    IF t[3] = "Generic" THEN <<>>
    ELSE CASE t[1].tag = "Android" ->
                Architecture_get_rust_name(t[3]) \o <<"-","l","i","n","u","x","-">> \o System_get_name(t[1])
                \o (IF t[3] \in {"Armv7", "Arm64"} THEN <<"e","a","b","i">> ELSE <<>>)
           [] t[1].tag = "IOS" ->
                Architecture_get_rust_name(t[3]) \o <<"-","a","p","p","l","e","-">> \o System_get_name(t[1])
           [] t[1].tag = "Linux" ->
                Architecture_get_rust_name(t[3]) \o <<"-","u","n","k","n","o","w","n","-">> \o System_get_name(t[1])
                \o <<"-","g","n","u">>
           [] t[1].tag = "MacOS" -> Architecture_get_rust_name(t[3]) \o <<"-","a","p","p","l","e","-","d","a","r","w","i","n">>
           [] t[1].tag = "Web" -> Architecture_get_rust_name(t[3]) \o <<"-","u","n","k","n","o","w","n","-","e","m","s","c","r","i","p","t","e","n">>
           [] t[1].tag = "Windows" ->
                Architecture_get_rust_name(t[3]) \o <<"-","p","c","-">> \o System_get_name(t[1])
                \o <<"-">> \o WindowsABI_get_rust_name(t[1].abi)

\* the system name interpolated for MacOS as it is for iOS
get_rust_target_triple_macos(t) ==
    IF t[3] = "Generic" THEN <<>>
    ELSE CASE t[1].tag = "Android" ->
                Architecture_get_rust_name(t[3]) \o <<"-","l","i","n","u","x","-">> \o System_get_name(t[1])
                \o (IF t[3] = "Armv7" THEN <<"e","a","b","i">> ELSE <<>>)
           [] t[1].tag \in {"IOS", "MacOS"} ->
                Architecture_get_rust_name(t[3]) \o <<"-","a","p","p","l","e","-">> \o System_get_name(t[1])
           [] t[1].tag = "Linux" ->
                Architecture_get_rust_name(t[3]) \o <<"-","u","n","k","n","o","w","n","-">> \o System_get_name(t[1])
                \o <<"-","g","n","u">>
           [] t[1].tag = "Web" -> Architecture_get_rust_name(t[3]) \o <<"-","u","n","k","n","o","w","n","-","e","m","s","c","r","i","p","t","e","n">>
           [] t[1].tag = "Windows" ->
                Architecture_get_rust_name(t[3]) \o <<"-","p","c","-">> \o System_get_name(t[1])
                \o <<"-">> \o WindowsABI_get_rust_name(t[1].abi)

get_rust_target_triple(t) ==
    IF t[3] = "Generic" THEN <<>>
    ELSE CASE t[1].tag = "Android" ->
                Architecture_get_rust_name(t[3]) \o <<"-","l","i","n","u","x","-">> \o System_get_name(t[1])
                \o (IF t[3] = "Armv7" THEN <<"e","a","b","i">> ELSE <<>>)
           [] t[1].tag = "IOS" ->
                Architecture_get_rust_name(t[3]) \o <<"-","a","p","p","l","e","-">> \o System_get_name(t[1])
           [] t[1].tag = "Linux" ->
                Architecture_get_rust_name(t[3]) \o <<"-","u","n","k","n","o","w","n","-">> \o System_get_name(t[1])
                \o <<"-","g","n","u">>
           [] t[1].tag = "MacOS" -> Architecture_get_rust_name(t[3]) \o <<"-","a","p","p","l","e","-","d","a","r","w","i","n">>
           [] t[1].tag = "Web" -> Architecture_get_rust_name(t[3]) \o <<"-","u","n","k","n","o","w","n","-","e","m","s","c","r","i","p","t","e","n">>
           [] t[1].tag = "Windows" ->
                Architecture_get_rust_name(t[3]) \o <<"-","p","c","-">> \o System_get_name(t[1])
                \o <<"-">> \o WindowsABI_get_rust_name(t[1].abi)

\* the three-part format used for every architecture
get_godot_target_three(t) ==
    System_get_name(t[1]) \o <<".">> \o Mode_get_godot_name(t[2])
    \o <<".">> \o Architecture_get_godot_name(t[3])

get_godot_target(t) ==
    IF t[3] = "Generic"
    THEN System_get_name(t[1]) \o <<".">> \o Mode_get_godot_name(t[2])
    ELSE System_get_name(t[1]) \o <<".">> \o Mode_get_godot_name(t[2])
         \o <<".">> \o Architecture_get_godot_name(t[3])

-----------------------------------------------------------------------------
(* The catalog functions as a caller of the crate uses them (lib.rs prelude) *)

LibNames == {<<"r","u","s","t">>, <<"m","y","_","l","i","b">>}

NoCall == [op |-> "none", arg |-> "none", ret |-> "none"]

Call_get_rust_target_triple(t) ==
    /\ call' = [op |-> "get_rust_target_triple", arg |-> t, ret |-> get_rust_target_triple(t)]
    /\ UNCHANGED <<libs_vars, scan_vars, icons_vars, run_vars, deps_vars>>

Call_get_godot_target(t) ==
    /\ call' = [op |-> "get_godot_target", arg |-> t, ret |-> get_godot_target(t)]
    /\ UNCHANGED <<libs_vars, scan_vars, icons_vars, run_vars, deps_vars>>

Call_get_architectures(s) ==
    /\ call' = [op |-> "get_architectures", arg |-> s, ret |-> get_architectures(s)]
    /\ UNCHANGED <<libs_vars, scan_vars, icons_vars, run_vars, deps_vars>>

Call_get_lib_export_name(s, name) ==
    /\ call' = [op |-> "get_lib_export_name", arg |-> <<s, name>>,
                ret |-> get_lib_export_name(s, name)]
    /\ UNCHANGED <<libs_vars, scan_vars, icons_vars, run_vars, deps_vars>>

Call_Mode_get_rust_name(m) ==
    /\ call' = [op |-> "Mode_get_rust_name", arg |-> m, ret |-> Mode_get_rust_name(m)]
    /\ UNCHANGED <<libs_vars, scan_vars, icons_vars, run_vars, deps_vars>>

Call_Mode_get_godot_name(m) ==
    /\ call' = [op |-> "Mode_get_godot_name", arg |-> m, ret |-> Mode_get_godot_name(m)]
    /\ UNCHANGED <<libs_vars, scan_vars, icons_vars, run_vars, deps_vars>>

-----------------------------------------------------------------------------
(* args/mod.rs *)

BaseDirectories == {"ProjectFolder", "GDExtensionFolder"}

PROJECT_FOLDER == <<"r","e","s",":","/","/">>

GDEXTENSION_FOLDER == <<>>

BaseDirectory_as_str(b) ==
    CASE b = "ProjectFolder" -> PROJECT_FOLDER
      [] b = "GDExtensionFolder" -> GDEXTENSION_FOLDER

-----------------------------------------------------------------------------
(* std::path as gdext/libs.rs uses it, for paths without a drive prefix *)

Hosts == {"unix", "windows"}

MAIN_SEPARATOR(h) == IF h = "windows" THEN "\\" ELSE "/"

is_sep(h, c) == c = "/" \/ (h = "windows" /\ c = "\\")

has_root(h, p) == p # <<>> /\ is_sep(h, p[1])

\* Path::join: a rooted path replaces self, otherwise it is appended, after a
\* separator when self is not empty and does not end with one
PathJoin(h, self, p) ==
    IF has_root(h, p) THEN p
    ELSE IF self # <<>> /\ ~is_sep(h, self[Len(self)])
         THEN self \o <<MAIN_SEPARATOR(h)>> \o p
         ELSE self \o p

\* PathBuf::from_iter
RECURSIVE PathFromIter(_, _)
PathFromIter(h, comps) ==
    IF comps = <<>> THEN <<>>
    ELSE PathJoin(h, PathFromIter(h, SubSeq(comps, 1, Len(comps) - 1)), comps[Len(comps)])

-----------------------------------------------------------------------------
(* gdext/libs.rs: GDExtension::generate_libs *)

\* toml::Table::insert: a later value replaces the one under the same key
TableInsert(table, k, v) ==
    [x \in DOMAIN table \cup {k} |-> IF x = k THEN v ELSE table[x]]

EmptyTable == [x \in {} |-> <<>>]

\* the path of every target built as the path of a generic one
lib_path_generic(t) ==
    BaseDirectory_as_str(base_dir)
    \o ReplaceChar(PathJoin(host, PathJoin(host, target_dir, Mode_get_rust_name(t[2])),
                            get_lib_export_name(t[1], lib_name)),
                   "\\", <<"/">>)

\* the separators left as they are in the branch of the non-generic targets
lib_path_no_replace(t) ==
    IF t[3] = "Generic"
    THEN BaseDirectory_as_str(base_dir)
         \o ReplaceChar(PathJoin(host, PathJoin(host, target_dir, Mode_get_rust_name(t[2])),
                                 get_lib_export_name(t[1], lib_name)),
                        "\\", <<"/">>)
    ELSE BaseDirectory_as_str(base_dir)
         \o PathJoin(host,
                     PathJoin(host, PathJoin(host, target_dir, get_rust_target_triple(t)),
                              Mode_get_rust_name(t[2])),
                     get_lib_export_name(t[1], lib_name))

\* the value inserted for target t
lib_path(t) ==
    IF t[3] = "Generic"
    THEN BaseDirectory_as_str(base_dir)
         \o ReplaceChar(PathJoin(host, PathJoin(host, target_dir, Mode_get_rust_name(t[2])),
                                 get_lib_export_name(t[1], lib_name)),
                        "\\", <<"/">>)
    ELSE BaseDirectory_as_str(base_dir)
         \o ReplaceChar(PathJoin(host,
                                 PathJoin(host,
                                          PathJoin(host, target_dir, get_rust_target_triple(t)),
                                          Mode_get_rust_name(t[2])),
                                 get_lib_export_name(t[1], lib_name)),
                        "\\", <<"/">>)

\* one iteration of the innermost loop: build the Target, insert its entry, and
\* move to the next mode, architecture or system; return after the last one
generate_libs_step ==
    /\ libs_pc = "loop"
    /\ LET systems == get_systems(windows_abi)
           system == systems[system_i]
           archs == get_architectures(system)
           architecture == archs[arch_i]
           mode == get_modes[mode_i]
           target == <<system, mode, architecture>>
       IN /\ libraries' = TableInsert(libraries, get_godot_target(target), lib_path(target))
          /\ IF mode_i < Len(get_modes)
             THEN /\ mode_i' = mode_i + 1
                  /\ UNCHANGED <<arch_i, system_i, libs_pc>>
             ELSE IF arch_i < Len(archs)
             THEN /\ mode_i' = 1
                  /\ arch_i' = arch_i + 1
                  /\ UNCHANGED <<system_i, libs_pc>>
             ELSE IF system_i < Len(systems)
             THEN /\ mode_i' = 1
                  /\ arch_i' = 1
                  /\ system_i' = system_i + 1
                  /\ UNCHANGED libs_pc
             ELSE /\ libs_pc' = "done"
                  /\ UNCHANGED <<mode_i, arch_i, system_i>>
    /\ UNCHANGED <<host, base_dir, lib_name, windows_abi, target_dir>>
    /\ UNCHANGED <<catalog_vars, scan_vars, icons_vars, run_vars, deps_vars>>

\* lib.rs: target_dir.unwrap_or(PathBuf::from_iter(["..", "rust", "target"]))
DefaultTargetDir(h) == PathFromIter(h, <<<<".",".">>, <<"r","u","s","t">>, <<"t","a","r","g","e","t">>>>)

\* the target directories of a run: the default one, one that ends with a
\* separator, the empty one and one written with backslashes
TargetDirs(h) == {DefaultTargetDir(h), <<"t","a","r","g","e","t","/">>, <<>>, <<"o","u","t","\\","b","i","n">>}

-----------------------------------------------------------------------------
(* gdext/icons.rs: find_children *)

MaxUnits == 2

MaxLines == 3

SpaceChars == {" ", "\t"}

WordChars ==
    {"a", "b", "c", "d", "e", "f", "g", "h", "i", "j", "k", "l", "m",
     "n", "o", "p", "q", "r", "s", "t", "u", "v", "w", "x", "y", "z",
     "A", "B", "C", "D", "E", "F", "G", "H", "I", "J", "K", "L", "M",
     "N", "O", "P", "Q", "R", "S", "T", "U", "V", "W", "X", "Y", "Z",
     "0", "1", "2", "3", "4", "5", "6", "7", "8", "9", "_"}

\* the first position from i on whose character is not in class, Len(s) + 1 if none
RECURSIVE SkipWhile(_, _, _)
SkipWhile(s, i, class) ==
    IF i <= Len(s) /\ s[i] \in class THEN SkipWhile(s, i + 1, class) ELSE i

\* where a match of  keyword \s* (\= \s*)? [\w_\d]+ \s* [closers]  that starts at
\* i ends, 0 when there is none. The classes that follow each other are
\* disjoint, so the greedy match is the only one.
RegexEndAt(s, i, keyword, with_equal, closers) ==
    IF ~OccursAt(s, keyword, i) THEN 0
    ELSE LET j1 == SkipWhile(s, i + Len(keyword), SpaceChars)
             j2 == IF with_equal THEN SkipWhile(s, j1 + 1, SpaceChars) ELSE j1
             j3 == SkipWhile(s, j2, WordChars)
             j4 == SkipWhile(s, j3, SpaceChars)
         IN IF /\ (with_equal => (j1 <= Len(s) /\ s[j1] = "="))
               /\ j3 > j2
               /\ j4 <= Len(s)
               /\ s[j4] \in closers
            THEN j4
            ELSE 0

NoMatch == [found |-> FALSE, str |-> <<>>]

\* Regex::find: the leftmost match
RegexFind(s, keyword, with_equal, closers) ==
    LET starts == {i \in 1..Len(s) : RegexEndAt(s, i, keyword, with_equal, closers) > 0}
    IN IF starts = {} THEN NoMatch
       ELSE LET i == CHOOSE x \in starts : \A y \in starts : x <= y
            IN [found |-> TRUE,
                str |-> SubSeq(s, i, RegexEndAt(s, i, keyword, with_equal, closers))]

\* Regex::new(r"base\s*\=\s*[\w_\d]+\s*[),]")
base_class_regex(line) == RegexFind(line, <<"b","a","s","e">>, TRUE, {")", ","})

\* Regex::new(r"struct\s*[\w_\d]+\s*[{;<]")
struct_regex(line) == RegexFind(line, <<"s","t","r","u","c","t">>, FALSE, {"{", ";", "<"})

\* String::pop
Pop(s) == IF s = <<>> THEN s ELSE SubSeq(s, 1, Len(s) - 1)

\* str::trim
RECURSIVE TrimStart(_)
TrimStart(s) == IF s # <<>> /\ Head(s) \in SpaceChars THEN TrimStart(Tail(s)) ELSE s

RECURSIVE TrimEnd(_)
TrimEnd(s) == IF s # <<>> /\ s[Len(s)] \in SpaceChars THEN TrimEnd(Pop(s)) ELSE s

Trim(s) == TrimEnd(TrimStart(s))

\* the first branch of the loop body is taken
IsBaseLine(line) ==
    ~StartsWith(line, <<"/","/","/">>) /\ Contains(line, <<"b","a","s","e">>) /\ Contains(line, <<"=">>)

\* the second branch of the loop body is taken
IsStructLine(line) ==
    ~IsBaseLine(line) /\ found_base /\ ~StartsWith(line, <<"/","/","/">>) /\ Contains(line, <<"s","t","r","u","c","t">>)

\* base_class after a base line whose name the expression finds
base_class_of(line) ==
    Pop(ReplaceStr(ReplaceStr(base_class_regex(line).str, <<"b","a","s","e">>, <<>>), <<"=">>, <<>>))

\* struct_class after a struct line whose name the expression finds
struct_class_of(line) == Pop(ReplaceStr(struct_regex(line).str, <<"s","t","r","u","c","t">>, <<>>))

\* a struct line without a name makes the scanner forget the base class
find_children_line_reset(line) ==
    /\ scan_pc = "lines"
    /\ Len(unit_lines) < MaxLines
    /\ unit_lines' = Append(unit_lines, line)
    /\ IF IsBaseLine(line)
       THEN IF ~base_class_regex(line).found
            THEN UNCHANGED <<base_class, base_class_to_nodes, found_base, scan_pc>>
            ELSE LET base_class_trimmed == Trim(base_class_of(line))
                 IN /\ base_class' = base_class_of(line)
                    /\ base_class_to_nodes' =
                           IF base_class_trimmed \notin DOMAIN base_class_to_nodes
                           THEN TableInsert(base_class_to_nodes, base_class_trimmed, <<>>)
                           ELSE base_class_to_nodes
                    /\ found_base' = TRUE
                    /\ UNCHANGED scan_pc
       ELSE IF IsStructLine(line)
       THEN IF ~struct_regex(line).found
            THEN /\ found_base' = FALSE
                 /\ UNCHANGED <<base_class, base_class_to_nodes, scan_pc>>
            ELSE IF base_class \in DOMAIN base_class_to_nodes
            THEN /\ base_class_to_nodes' =
                        [base_class_to_nodes EXCEPT
                            ![base_class] = Append(@, Trim(struct_class_of(line)))]
                 /\ found_base' = FALSE
                 /\ UNCHANGED <<base_class, scan_pc>>
            \* get_mut(&base_class) is None: expect panics
            ELSE /\ scan_pc' = "panicked"
                 /\ UNCHANGED <<base_class, base_class_to_nodes, found_base>>
       ELSE UNCHANGED <<base_class, base_class_to_nodes, found_base, scan_pc>>
    /\ UNCHANGED units_read
    /\ UNCHANGED <<catalog_vars, libs_vars, icons_vars, run_vars, deps_vars>>

\* the body of the loop over the lines of a file, for one line
\* a recorded struct leaves the scanner waiting for more structs of the base class
find_children_line_keep(line) ==
    /\ scan_pc = "lines"
    /\ Len(unit_lines) < MaxLines
    /\ unit_lines' = Append(unit_lines, line)
    /\ IF IsBaseLine(line)
       THEN IF ~base_class_regex(line).found
            THEN UNCHANGED <<base_class, base_class_to_nodes, found_base, scan_pc>>
            ELSE LET base_class_trimmed == Trim(base_class_of(line))
                 IN /\ base_class' = base_class_of(line)
                    /\ base_class_to_nodes' =
                           IF base_class_trimmed \notin DOMAIN base_class_to_nodes
                           THEN TableInsert(base_class_to_nodes, base_class_trimmed, <<>>)
                           ELSE base_class_to_nodes
                    /\ found_base' = TRUE
                    /\ UNCHANGED scan_pc
       ELSE IF IsStructLine(line)
       THEN IF ~struct_regex(line).found
            THEN UNCHANGED <<base_class, base_class_to_nodes, found_base, scan_pc>>
            ELSE IF base_class \in DOMAIN base_class_to_nodes
            THEN /\ base_class_to_nodes' =
                        [base_class_to_nodes EXCEPT
                            ![base_class] = Append(@, Trim(struct_class_of(line)))]
                 /\ UNCHANGED <<base_class, found_base, scan_pc>>
            ELSE /\ scan_pc' = "panicked"
                 /\ UNCHANGED <<base_class, base_class_to_nodes, found_base>>
       ELSE UNCHANGED <<base_class, base_class_to_nodes, found_base, scan_pc>>
    /\ UNCHANGED units_read
    /\ UNCHANGED <<catalog_vars, libs_vars, icons_vars, run_vars, deps_vars>>

\* the key of a base class created by its first struct, not by its declaration
find_children_line_lazy(line) ==
    /\ scan_pc = "lines"
    /\ Len(unit_lines) < MaxLines
    /\ unit_lines' = Append(unit_lines, line)
    /\ IF IsBaseLine(line)
       THEN IF ~base_class_regex(line).found
            THEN UNCHANGED <<base_class, base_class_to_nodes, found_base, scan_pc>>
            ELSE /\ base_class' = base_class_of(line)
                 /\ found_base' = TRUE
                 /\ UNCHANGED <<base_class_to_nodes, scan_pc>>
       ELSE IF IsStructLine(line)
       THEN IF ~struct_regex(line).found
            THEN UNCHANGED <<base_class, base_class_to_nodes, found_base, scan_pc>>
            ELSE /\ base_class_to_nodes' =
                        TableInsert(base_class_to_nodes, Trim(base_class),
                                    Append(IF Trim(base_class) \in DOMAIN base_class_to_nodes
                                           THEN base_class_to_nodes[Trim(base_class)]
                                           ELSE <<>>,
                                           Trim(struct_class_of(line))))
                 /\ found_base' = FALSE
                 /\ UNCHANGED <<base_class, scan_pc>>
       ELSE UNCHANGED <<base_class, base_class_to_nodes, found_base, scan_pc>>
    /\ UNCHANGED units_read
    /\ UNCHANGED <<catalog_vars, libs_vars, icons_vars, run_vars, deps_vars>>

find_children_line(line) ==
    /\ scan_pc = "lines"
    /\ Len(unit_lines) < MaxLines
    /\ unit_lines' = Append(unit_lines, line)
    /\ IF IsBaseLine(line)
       THEN IF ~base_class_regex(line).found
            THEN UNCHANGED <<base_class, base_class_to_nodes, found_base, scan_pc>>
            ELSE LET base_class_trimmed == Trim(base_class_of(line))
                 IN /\ base_class' = base_class_of(line)
                    /\ base_class_to_nodes' =
                           IF base_class_trimmed \notin DOMAIN base_class_to_nodes
                           THEN TableInsert(base_class_to_nodes, base_class_trimmed, <<>>)
                           ELSE base_class_to_nodes
                    /\ found_base' = TRUE
                    /\ UNCHANGED scan_pc
       ELSE IF IsStructLine(line)
       THEN IF ~struct_regex(line).found
            THEN UNCHANGED <<base_class, base_class_to_nodes, found_base, scan_pc>>
            ELSE IF base_class \in DOMAIN base_class_to_nodes
            THEN /\ base_class_to_nodes' =
                        [base_class_to_nodes EXCEPT
                            ![base_class] = Append(@, Trim(struct_class_of(line)))]
                 /\ found_base' = FALSE
                 /\ UNCHANGED <<base_class, scan_pc>>
            \* get_mut(&base_class) is None: expect panics
            ELSE /\ scan_pc' = "panicked"
                 /\ UNCHANGED <<base_class, base_class_to_nodes, found_base>>
       ELSE UNCHANGED <<base_class, base_class_to_nodes, found_base, scan_pc>>
    /\ UNCHANGED units_read
    /\ UNCHANGED <<catalog_vars, libs_vars, icons_vars, run_vars, deps_vars>>

\* the next path of the glob: the file is opened and found_base is reset
find_children_open ==
    /\ scan_pc = "glob"
    /\ units_read < MaxUnits
    /\ units_read' = units_read + 1
    /\ unit_lines' = <<>>
    /\ found_base' = FALSE
    /\ scan_pc' = "lines"
    /\ UNCHANGED <<base_class, base_class_to_nodes>>
    /\ UNCHANGED <<catalog_vars, libs_vars, icons_vars, run_vars, deps_vars>>

\* File::open(path)? fails: find_children returns the error
find_children_open_fails ==
    /\ scan_pc = "glob"
    /\ units_read < MaxUnits
    /\ scan_pc' = "err"
    /\ UNCHANGED <<units_read, unit_lines, base_class, found_base, base_class_to_nodes>>
    /\ UNCHANGED <<catalog_vars, libs_vars, icons_vars, run_vars, deps_vars>>

\* line? fails: find_children returns the error
find_children_read_fails ==
    /\ scan_pc = "lines"
    /\ Len(unit_lines) < MaxLines
    /\ scan_pc' = "err"
    /\ UNCHANGED <<units_read, unit_lines, base_class, found_base, base_class_to_nodes>>
    /\ UNCHANGED <<catalog_vars, libs_vars, icons_vars, run_vars, deps_vars>>

\* the lines of the file are exhausted
find_children_end_of_file ==
    /\ scan_pc = "lines"
    /\ scan_pc' = "glob"
    /\ UNCHANGED <<units_read, unit_lines, base_class, found_base, base_class_to_nodes>>
    /\ UNCHANGED <<catalog_vars, libs_vars, icons_vars, run_vars, deps_vars>>

\* the paths of the glob are exhausted: Ok(())
find_children_return ==
    /\ scan_pc = "glob"
    /\ scan_pc' = "ok"
    /\ UNCHANGED <<units_read, unit_lines, base_class, found_base, base_class_to_nodes>>
    /\ UNCHANGED <<catalog_vars, libs_vars, icons_vars, run_vars, deps_vars>>

\* the lines a source file is made of
LINE_BASE_SPACED == <<"b","a","s","e"," ","="," ","F","o","o",",">>

LINE_BASE_TIGHT == <<"#","[","c","l","a","s","s","(","b","a","s","e","=","F","o","o",")","]">>

LINE_STRUCT == <<"s","t","r","u","c","t"," ","B","a","r"," ","{">>

LINE_BLANK == <<>>

LINE_UNRELATED == <<"u","s","e"," ","g","o","d","o","t",":",":","p","r","e","l","u","d","e",":",":","*",";">>

LINE_DOC_BASE == <<"/","/","/"," ","b","a","s","e"," ","="," ","F","o","o",",">>

LINE_BASE_NO_NAME == <<"b","a","s","e"," ","="," ",",">>

LINE_STRUCT_NO_NAME == <<"s","t","r","u","c","t"," ","{">>

Lines == {LINE_BASE_SPACED, LINE_BASE_TIGHT, LINE_STRUCT, LINE_BLANK, LINE_UNRELATED,
          LINE_DOC_BASE, LINE_BASE_NO_NAME, LINE_STRUCT_NO_NAME}

-----------------------------------------------------------------------------
(* gdext/icons.rs: find_children over the files of the crate *)

LINE_STRUCT_BAZ == <<"s","t","r","u","c","t"," ","B","a","z",";">>

LINE_BASE_NODE == <<"#","[","c","l","a","s","s","(","b","a","s","e","=","N","o","d","e",")","]">>

LINE_BASE_NODE_SPACED == <<"#","[","c","l","a","s","s","(","b","a","s","e"," ","="," ","N","o","d","e",")","]">>

LINE_DOC_BASE_INDENTED == <<" "," "," "," ","/","/","/"," ","b","a","s","e","=","F","o","o",",">>

LINE_DOC_STRUCT_INDENTED == <<" "," "," "," ","/","/","/"," ","s","t","r","u","c","t"," ","B","a","r"," ","{">>

LINE_BASE_DATABASE == <<"#","[","c","l","a","s","s","(","b","a","s","e","=","D","a","t","a","b","a","s","e",")","]">>

LINE_STRUCT_CONSTRUCTOR == <<"s","t","r","u","c","t"," ","C","o","n","s","t","r","u","c","t","o","r"," ","{">>

\* the source files of a crate
FILE_FOO_BAR_SPACED == <<LINE_BASE_SPACED, LINE_STRUCT>>

FILE_FOO_BAZ_SPACED == <<LINE_BASE_SPACED, LINE_STRUCT_BAZ>>

FILE_FOO_BAR == <<LINE_BASE_TIGHT, LINE_STRUCT>>

FILE_FOO_BAZ == <<LINE_BASE_TIGHT, LINE_BLANK, LINE_STRUCT_BAZ>>

FILE_NODE_BAR == <<LINE_BASE_NODE, LINE_STRUCT>>

FILE_FOO == <<LINE_BASE_TIGHT>>

FILE_BAZ == <<LINE_STRUCT_BAZ>>

FILE_FOO_SPACED == <<LINE_BASE_SPACED, LINE_BLANK>>

FILE_DOC_BASE_INDENTED == <<LINE_DOC_BASE_INDENTED, LINE_STRUCT>>

FILE_DOC_STRUCT_INDENTED == <<LINE_BASE_TIGHT, LINE_DOC_STRUCT_INDENTED, LINE_STRUCT_BAZ>>

FILE_DATABASE == <<LINE_BASE_DATABASE, LINE_STRUCT_CONSTRUCTOR>>

FILE_FOO_NODE_BAR == <<LINE_BASE_TIGHT, LINE_BASE_NODE, LINE_STRUCT>>

FILE_FOO_NODE_BAR_SPACED == <<LINE_BASE_TIGHT, LINE_BASE_NODE_SPACED, LINE_STRUCT>>

\* what glob("./src/**/*.rs") yields, for the crates of a run
Sources ==
    {<<>>,
     <<FILE_FOO_SPACED>>,
     <<FILE_DOC_BASE_INDENTED>>,
     <<FILE_DOC_STRUCT_INDENTED>>,
     <<FILE_DATABASE>>,
     <<FILE_FOO_NODE_BAR>>,
     <<FILE_FOO_NODE_BAR_SPACED>>,
     <<FILE_FOO_BAR_SPACED>>,
     <<FILE_FOO_BAR>>,
     <<FILE_FOO_BAR_SPACED, FILE_FOO_BAZ_SPACED>>,
     <<FILE_FOO_BAR, FILE_FOO_BAZ>>,
     <<FILE_FOO, FILE_BAZ>>,
     <<FILE_FOO_BAZ, FILE_NODE_BAR>>,
     <<FILE_NODE_BAR, FILE_FOO_BAR>>}

\* the next path of the glob is opened
glob_open ==
    /\ units_read < Len(sources)
    /\ find_children_open

\* the next path of the glob cannot be opened
glob_open_fails ==
    /\ units_read < Len(sources)
    /\ find_children_open_fails

\* the next line of the file is read
file_line ==
    /\ scan_pc = "lines"
    /\ Len(unit_lines) < Len(sources[units_read])
    /\ find_children_line(sources[units_read][Len(unit_lines) + 1])

\* the next line of the file cannot be read
file_line_fails ==
    /\ scan_pc = "lines"
    /\ Len(unit_lines) < Len(sources[units_read])
    /\ find_children_read_fails

\* the file has no more lines
file_end ==
    /\ scan_pc = "lines"
    /\ Len(unit_lines) = Len(sources[units_read])
    /\ find_children_end_of_file

\* the glob has no more paths
glob_end ==
    /\ units_read = Len(sources)
    /\ find_children_return

-----------------------------------------------------------------------------
(* args/icons.rs and gdext/icons.rs: GDExtension::generate_icons *)

\* NodeRust as usize, counted from 1
NodeRust_Small == 1

NodeRust_Large == 2

NodeRust_Ferris == 3

NODES_RUST_FILENAMES == <<<<"N","o","d","e","R","u","s","t","S","m","a","l","l",".","s","v","g">>, <<"N","o","d","e","R","u","s","t","L","a","r","g","e",".","s","v","g">>, <<"N","o","d","e","R","u","s","t","F","e","r","r","i","s",".","s","v","g">>>>

\* DefaultNodeIcon
Custom(path) == [kind |-> "Custom", node_rust |-> NodeRust_Small, path |-> path]

BaseClass == [kind |-> "BaseClass", node_rust |-> NodeRust_Small, path |-> <<>>]

NodeRust(node_rust, path) == [kind |-> "NodeRust", node_rust |-> node_rust, path |-> path]

Node == [kind |-> "Node", node_rust |-> NodeRust_Small, path |-> <<>>]

\* IconsDirectories::default
base_directory == <<"a","d","d","o","n","s">>

editor_directory == <<"e","d","i","t","o","r">>

custom_directory == <<"r","u","s","t">>

\* Option<HashMap<String, PathBuf>>
NoCustomIcons == [some |-> FALSE, map |-> EmptyTable]

SomeCustomIcons(map) == [some |-> TRUE, map |-> map]

\* IconsCopyStrategy without path_node_rust
IconsCopyStrategy(copy_node_rust, copy_all, force_copy) ==
    [copy_node_rust |-> copy_node_rust, copy_all |-> copy_all, force_copy |-> force_copy]

IconsConfig(default, copy_strategy, custom_icons, relative_directory) ==
    [default |-> default, copy_strategy |-> copy_strategy, custom_icons |-> custom_icons,
     relative_directory |-> relative_directory]

\* IconsConfig::default
DefaultIconsConfig ==
    IconsConfig(Node, IconsCopyStrategy(FALSE, FALSE, FALSE), NoCustomIcons, "None")

\* Option<BaseDirectory>::unwrap_or_default
unwrap_or_default(relative_directory) ==
    IF relative_directory = "None" THEN "ProjectFolder" ELSE relative_directory

\* the icon of every policy built as the one of Custom
default_icon_path_custom(icon) ==
    BaseDirectory_as_str(unwrap_or_default(icons_config.relative_directory))
    \o ReplaceChar(PathJoin(host, base_directory, icons_config.default.path), "\\", <<"/">>)

\* the icon of the nodes whose base class is `icon`
default_icon_path(icon) ==
    LET rel == BaseDirectory_as_str(unwrap_or_default(icons_config.relative_directory))
        default == icons_config.default
    IN CASE default.kind = "BaseClass" ->
                rel \o ReplaceChar(PathJoin(host, PathJoin(host, base_directory,
                                                           editor_directory), icon),
                                   "\\", <<"/">>)
                \o <<".","s","v","g">>
         [] default.kind = "Custom" ->
                rel \o ReplaceChar(PathJoin(host, base_directory, default.path), "\\", <<"/">>)
         [] default.kind = "NodeRust" ->
                rel \o ReplaceChar(PathJoin(host, base_directory, default.path), "\\", <<"/">>)
                \o <<"/">> \o NODES_RUST_FILENAMES[default.node_rust]
         [] default.kind = "Node" -> <<"E","R","R","O","R">>

\* the icon of a node of custom_icons
custom_icon_path(icon) ==
    BaseDirectory_as_str(unwrap_or_default(icons_config.relative_directory))
    \o ReplaceChar(PathJoin(host, PathJoin(host, base_directory, custom_directory), icon),
                   "\\", <<"/">>)

\* for node in nodes { icons.insert(node, path) }
RECURSIVE InsertNodes(_, _, _)
InsertNodes(table, nodes, path) ==
    IF nodes = <<>> THEN table
    ELSE InsertNodes(TableInsert(table, Head(nodes), path), Tail(nodes), path)

\* the custom icons inserted only for the nodes the table does not hold
InsertCustomIcons_or_insert(table, custom_icons) ==
    [node \in DOMAIN table \cup DOMAIN custom_icons |->
        IF node \in DOMAIN table THEN table[node]
        ELSE BaseDirectory_as_str(unwrap_or_default(icons_config.relative_directory))
             \o ReplaceChar(PathJoin(host, PathJoin(host, base_directory, custom_directory),
                                     custom_icons[node]),
                            "\\", <<"/">>)]

\* for (node, icon) in custom_icons { icons.insert(node, custom path of icon) }
InsertCustomIcons(table, custom_icons) ==
    [node \in DOMAIN table \cup DOMAIN custom_icons |->
        IF node \in DOMAIN custom_icons THEN custom_icon_path(custom_icons[node])
        ELSE table[node]]

\* the files to copy: every NodeRust, the one of the default, or none
files_to_copy ==
    LET copy_strategy == icons_config.copy_strategy
    IN IF ~(copy_strategy.copy_all \/ copy_strategy.copy_node_rust) THEN <<>>
       ELSE IF copy_strategy.copy_all
            THEN <<NodeRust_Small, NodeRust_Large, NodeRust_Ferris>>
            ELSE IF icons_config.default.kind = "NodeRust"
                 THEN <<icons_config.default.node_rust>>
                 ELSE <<>>

\* Option<Table>
NoIcons == [some |-> FALSE, table |-> EmptyTable]

SomeIcons(table) == [some |-> TRUE, table |-> table]

\* let mut icons = Table::new(); with find_icons and a default other than
\* Node, find_children is called with a new map
generate_icons_start ==
    /\ icons_pc = "start"
    /\ icons' = EmptyTable
    /\ IF icons_config.default.kind # "Node"
       THEN /\ scan_pc' = "glob"
            /\ units_read' = 0
            /\ unit_lines' = <<>>
            /\ base_class' = <<>>
            /\ found_base' = FALSE
            /\ base_class_to_nodes' = EmptyTable
            /\ icons_pc' = "scan"
       ELSE /\ icons_pc' = "custom"
            /\ UNCHANGED scan_vars
    /\ UNCHANGED <<sources, icons_config, self_icons, infer_left, nodes_rust, assets>>
    /\ UNCHANGED <<catalog_vars, libs_vars, run_vars, deps_vars>>

\* find_children(..)? returned an error
generate_icons_scan_fails ==
    /\ icons_pc = "scan"
    /\ scan_pc = "err"
    /\ icons_pc' = "err"
    /\ UNCHANGED <<sources, icons_config, icons, self_icons, infer_left, nodes_rust, assets>>
    /\ UNCHANGED <<catalog_vars, libs_vars, scan_vars, run_vars, deps_vars>>

\* find_children(..)? returned Ok: the loop over the map begins
generate_icons_scanned ==
    /\ icons_pc = "scan"
    /\ scan_pc = "ok"
    /\ infer_left' = DOMAIN base_class_to_nodes
    /\ icons_pc' = IF DOMAIN base_class_to_nodes = {} THEN "custom" ELSE "infer"
    /\ UNCHANGED <<sources, icons_config, icons, self_icons, nodes_rust, assets>>
    /\ UNCHANGED <<catalog_vars, libs_vars, scan_vars, run_vars, deps_vars>>

\* one (icon, nodes) pair of the map, in the order the HashMap yields them
generate_icons_infer(icon) ==
    /\ icons_pc = "infer"
    /\ icon \in infer_left
    /\ icons' = InsertNodes(icons, base_class_to_nodes[icon], default_icon_path(icon))
    /\ infer_left' = infer_left \ {icon}
    /\ icons_pc' = IF infer_left' = {} THEN "custom" ELSE "infer"
    /\ UNCHANGED <<sources, icons_config, self_icons, nodes_rust, assets>>
    /\ UNCHANGED <<catalog_vars, libs_vars, scan_vars, run_vars, deps_vars>>

\* the custom icons are inserted and the files to copy are listed
generate_icons_custom ==
    /\ icons_pc = "custom"
    /\ icons' = IF icons_config.custom_icons.some
                THEN InsertCustomIcons(icons, icons_config.custom_icons.map)
                ELSE icons
    /\ nodes_rust' = files_to_copy
    /\ icons_pc' = "copy"
    /\ UNCHANGED <<sources, icons_config, self_icons, infer_left, assets>>
    /\ UNCHANGED <<catalog_vars, libs_vars, scan_vars, run_vars, deps_vars>>

\* whether the next file of nodes_rust is to be written
must_copy ==
    icons_config.copy_strategy.force_copy \/ assets[Head(nodes_rust)] = "absent"

\* the next file exists and the copy is not forced
generate_icons_keep ==
    /\ icons_pc = "copy"
    /\ nodes_rust # <<>>
    /\ ~must_copy
    /\ nodes_rust' = Tail(nodes_rust)
    /\ UNCHANGED <<sources, icons_config, icons, self_icons, infer_left, assets, icons_pc>>
    /\ UNCHANGED <<catalog_vars, libs_vars, scan_vars, run_vars, deps_vars>>

\* File::create(path_node_rust)?.write_all(..)? writes the next file
generate_icons_copy ==
    /\ icons_pc = "copy"
    /\ nodes_rust # <<>>
    /\ must_copy
    /\ assets' = [assets EXCEPT ![Head(nodes_rust)] = "written"]
    /\ nodes_rust' = Tail(nodes_rust)
    /\ UNCHANGED <<sources, icons_config, icons, self_icons, infer_left, icons_pc>>
    /\ UNCHANGED <<catalog_vars, libs_vars, scan_vars, run_vars, deps_vars>>

\* File::create(path_node_rust)? fails
generate_icons_create_fails ==
    /\ icons_pc = "copy"
    /\ nodes_rust # <<>>
    /\ must_copy
    /\ icons_pc' = "err"
    /\ UNCHANGED <<sources, icons_config, icons, self_icons, infer_left, nodes_rust, assets>>
    /\ UNCHANGED <<catalog_vars, libs_vars, scan_vars, run_vars, deps_vars>>

\* write_all(..)? fails on the file File::create has created or truncated
generate_icons_write_fails ==
    /\ icons_pc = "copy"
    /\ nodes_rust # <<>>
    /\ must_copy
    /\ assets' = [assets EXCEPT ![Head(nodes_rust)] = "empty"]
    /\ icons_pc' = "err"
    /\ UNCHANGED <<sources, icons_config, icons, self_icons, infer_left, nodes_rust>>
    /\ UNCHANGED <<catalog_vars, libs_vars, scan_vars, run_vars, deps_vars>>

\* self.icons = Some(icons); Ok(self)
generate_icons_return ==
    /\ icons_pc = "copy"
    /\ nodes_rust = <<>>
    /\ self_icons' = SomeIcons(icons)
    /\ icons_pc' = "ok"
    /\ UNCHANGED <<sources, icons_config, icons, infer_left, nodes_rust, assets>>
    /\ UNCHANGED <<catalog_vars, libs_vars, scan_vars, run_vars, deps_vars>>

\* the default policies of a configuration
DefaultNodeIcons ==
    {Node, BaseClass, Custom(<<"i","c","o","n",".","s","v","g">>), NodeRust(NodeRust_Ferris, <<"r","u","s","t","\\","i","c","o","n","s">>)}

\* the custom icons of a configuration
CustomIcons ==
    {NoCustomIcons,
     SomeCustomIcons(TableInsert(EmptyTable, <<"B","a","r">>, <<"B","a","r",".","s","v","g">>)),
     SomeCustomIcons(TableInsert(EmptyTable, <<"Q","u","x">>, <<"u","i","\\","Q","u","x",".","s","v","g">>))}

\* the copy strategies of a configuration
IconsCopyStrategies ==
    {IconsCopyStrategy(FALSE, FALSE, FALSE), IconsCopyStrategy(TRUE, FALSE, FALSE),
     IconsCopyStrategy(FALSE, TRUE, TRUE)}

IconsConfigs ==
    {IconsConfig(default, copy_strategy, custom_icons, relative_directory) :
        default \in DefaultNodeIcons, copy_strategy \in IconsCopyStrategies,
        custom_icons \in CustomIcons, relative_directory \in {"None", "GDExtensionFolder"}}

\* the files of path_node_rust before the run: none, or an older NodeRustFerris.svg
AssetsBefore ==
    {[i \in 1..3 |-> "absent"], [i \in 1..3 |-> IF i = NodeRust_Ferris THEN "stale" ELSE "absent"]}

-----------------------------------------------------------------------------
(* gdext/deps.rs: GDExtension::generate_deps *)

\* InlineTable::insert_formatted: the value of a key the table holds is
\* replaced, a new key is added at the end
InlineInsert(table, key, value) ==
    IF \E i \in 1..Len(table) : table[i][1] = key
    THEN [i \in 1..Len(table) |-> IF table[i][1] = key THEN <<key, value>> ELSE table[i]]
    ELSE Append(table, <<key, value>>)

\* the folder of every target is the one of a MacOS bundle
dependency_folder_bundle(target) == <<"C","o","n","t","e","n","t","s","/","F","r","a","m","e","w","o","r","k","s">>

\* the folder the dependencies of a target are copied to
dependency_folder(target) ==
    IF target[1].tag = "MacOS" THEN <<"C","o","n","t","e","n","t","s","/","F","r","a","m","e","w","o","r","k","s">> ELSE <<>>

\* for path in paths { current_dependencies.insert_formatted(..) }
RECURSIVE current_dependencies(_, _, _)
current_dependencies(table, target, paths) ==
    IF paths = <<>> THEN table
    ELSE current_dependencies(
             InlineInsert(table, PROJECT_FOLDER \o ReplaceChar(Head(paths), "\\", <<"/">>),
                          dependency_folder(target)),
             target, Tail(paths))

\* one (target, paths) pair of the map, in the order the HashMap yields
\* them; iter_mut().last().unwrap() panics on a table without entries
generate_deps_target(target) ==
    /\ deps_pc = "loop"
    /\ target \in deps_left
    /\ LET table == current_dependencies(<<>>, target, dependencies[target])
       IN IF table = <<>>
          THEN /\ deps_pc' = "panicked"
               /\ UNCHANGED <<deps_left, dependencies_vector>>
          ELSE /\ dependencies_vector' =
                      Append(dependencies_vector, <<get_godot_target(target), table>>)
               /\ deps_left' = deps_left \ {target}
               /\ UNCHANGED deps_pc
    /\ UNCHANGED dependencies
    /\ UNCHANGED <<catalog_vars, libs_vars, scan_vars, icons_vars, run_vars>>

\* the map is exhausted: dependencies_vector is returned
generate_deps_return ==
    /\ deps_pc = "loop"
    /\ deps_left = {}
    /\ deps_pc' = "ok"
    /\ UNCHANGED <<dependencies, deps_left, dependencies_vector>>
    /\ UNCHANGED <<catalog_vars, libs_vars, scan_vars, icons_vars, run_vars>>

\* the targets that have dependencies
DependencyTargets ==
    {<<Sys("MacOS"), "Debug", "Generic">>, <<Sys("MacOS"), "Release", "Arm64">>,
     <<Sys("Linux"), "Editor", "X86_64">>, <<Windows("MSVC"), "Release", "X86_64">>}

\* the dependencies of a target
DependencyPaths ==
    {<<>>, <<<<"l","i","b","s","/","a",".","s","o">>>>, <<<<"l","i","b","s","\\","b",".","d","l","l">>, <<"l","i","b","s","/","a",".","s","o">>>>}

\* HashMap<Target, Vec<PathBuf>>
DependencyMaps ==
    UNION {[targets -> DependencyPaths] : targets \in SUBSET DependencyTargets}

-----------------------------------------------------------------------------
(* lib.rs: generate_gdextension_file *)

\* Option<PathBuf>
NoPath == [some |-> FALSE, path |-> <<>>]

SomePath(path) == [some |-> TRUE, path |-> path]

\* Option<&OsStr>
NoStr == [some |-> FALSE, str |-> <<>>]

SomeStr(str) == [some |-> TRUE, str |-> str]

\* Option<IconsConfig>
NoIconsConfig == [some |-> FALSE, config |-> DefaultIconsConfig]

SomeIconsConfig(config) == [some |-> TRUE, config |-> config]

\* Option<HashMap<Target, Vec<PathBuf>>>
NoDependencies == [some |-> FALSE, map |-> EmptyTable]

SomeDependencies(map) == [some |-> TRUE, map |-> map]

\* a path without its trailing separators
RECURSIVE StripSeparators(_, _)
StripSeparators(h, p) ==
    IF p # <<>> /\ is_sep(h, p[Len(p)]) THEN StripSeparators(h, Pop(p)) ELSE p

\* Path::file_name: the last component of the path, if it is a normal one
RECURSIVE Path_file_name(_, _)
Path_file_name(h, p) ==
    LET q == StripSeparators(h, p)
        seps == {i \in 1..Len(q) : is_sep(h, q[i])}
        last == IF seps = {} THEN 0 ELSE CHOOSE i \in seps : \A j \in seps : j <= i
        name == SubSeq(q, last + 1, Len(q))
    IN IF q = <<>> \/ name = <<".",".">> THEN NoStr
       ELSE IF name = <<".">> THEN (IF last = 0 THEN NoStr ELSE Path_file_name(h, SubSeq(q, 1, last)))
       ELSE SomeStr(name)

\* Path::extension: what follows the last dot of the file name, unless the
\* name has no dot or only begins with one
Path_extension(h, p) ==
    LET name == Path_file_name(h, p).str
        dots == {i \in 1..Len(name) : name[i] = "."}
        last == CHOOSE i \in dots : \A j \in dots : j <= i
    IN IF ~Path_file_name(h, p).some \/ dots = {} THEN NoStr
       ELSE IF last = 1 THEN NoStr
       ELSE SomeStr(SubSeq(name, last + 1, Len(name)))

\* the check of the extension alone
check_gdextension_path_extension(h, p) ==
    IF Path_extension(h, p).some /\ Path_extension(h, p).str # <<"g","d","e","x","t","e","n","s","i","o","n">>
    THEN "InvalidInput"
    ELSE "Ok"

\* the check of a gdextension_path that is Some
check_gdextension_path(h, p) ==
    IF Path_extension(h, p).some
    THEN IF Path_extension(h, p).str # <<"g","d","e","x","t","e","n","s","i","o","n">> THEN "InvalidInput" ELSE "Ok"
    ELSE IF (IF Path_file_name(h, p).some THEN Path_file_name(h, p).str ELSE <<>>) # <<".","g","d","e","x","t","e","n","s","i","o","n">>
         THEN "InvalidInput"
         ELSE "Ok"

\* the generation features of a build: checked_generation and
\* forced_generation exclude each other
Features == {"none", "checked", "forced"}

\* force_generation is a parameter of the checked generation alone, and
\* true when neither generation is chosen
force_generation_of(f, parameter) == IF f = "checked" THEN parameter ELSE TRUE

\* the generation is skipped whenever the file exists
returns_early_if_exists(f, parameter, exists) == f # "forced" /\ exists

\* !force_generation & gdextension_path.exists(), compiled unless the
\* generation is forced
returns_early(f, parameter, exists) ==
    f # "forced" /\ ~force_generation_of(f, parameter) /\ exists

\* the document of a manifest without its libraries
to_string_pretty_no_libraries(gdextension) ==
    [some |-> TRUE, libraries |-> EmptyTable, icons |-> gdextension.icons,
     dependencies |-> [some |-> FALSE, table |-> EmptyTable]]

\* toml::to_string_pretty of a GDExtension: the libraries table and, when
\* there is one, the icons table; the configuration is left out
to_string_pretty(gdextension) ==
    [some |-> TRUE, libraries |-> gdextension.libraries, icons |-> gdextension.icons,
     dependencies |-> [some |-> FALSE, table |-> EmptyTable]]

\* no document yet
NoToml ==
    [some |-> FALSE, libraries |-> EmptyTable, icons |-> NoIcons,
     dependencies |-> [some |-> FALSE, table |-> EmptyTable]]

\* toml_document["dependencies"][target] = dependencies, for every pair
RECURSIVE dependencies_table(_, _)
dependencies_table(table, vector) ==
    IF vector = <<>> THEN table
    ELSE dependencies_table(TableInsert(table, Head(vector)[1], Head(vector)[2]),
                            Tail(vector))

\* the path is checked, then the existence of the file; generate_libs is
\* called on the manifest from_config creates
generate_gdextension_file_begin ==
    /\ run_pc = "start"
    /\ IF gdextension_path.some /\ check_gdextension_path(host, gdextension_path.path) # "Ok"
       THEN /\ result' = "InvalidInput"
            /\ run_pc' = "done"
            /\ UNCHANGED libs_pc
       ELSE IF returns_early(feature, force_generation, manifest_file # "absent")
       THEN /\ result' = "Ok"
            /\ run_pc' = "done"
            /\ UNCHANGED libs_pc
       ELSE /\ libs_pc' = "loop"
            /\ run_pc' = "libs"
            /\ UNCHANGED result
    /\ UNCHANGED <<host, base_dir, lib_name, windows_abi, target_dir, libraries,
                   system_i, arch_i, mode_i>>
    /\ UNCHANGED <<feature, force_generation, gdextension_path, icons_configuration,
                   dependencies_option, manifest_file, toml_string>>
    /\ UNCHANGED <<catalog_vars, scan_vars, icons_vars, deps_vars>>

\* generate_libs has returned: generate_icons is called when there is a
\* configuration, its relative_directory defaulting to base_dir
generate_gdextension_file_icons ==
    /\ run_pc = "libs"
    /\ libs_pc = "done"
    /\ IF icons_configuration.some
       THEN /\ icons_config' =
                  IF icons_configuration.config.relative_directory = "None"
                  THEN [icons_configuration.config EXCEPT !.relative_directory = base_dir]
                  ELSE icons_configuration.config
            /\ icons_pc' = "start"
            /\ run_pc' = "icons"
       ELSE /\ run_pc' = "serialize"
            /\ UNCHANGED <<icons_config, icons_pc>>
    /\ UNCHANGED <<sources, icons, self_icons, infer_left, nodes_rust, assets>>
    /\ UNCHANGED <<feature, force_generation, gdextension_path, icons_configuration,
                   dependencies_option, manifest_file, toml_string, result>>
    /\ UNCHANGED <<catalog_vars, libs_vars, scan_vars, deps_vars>>

\* generate_icons(..)? returned an error
generate_gdextension_file_icons_fail ==
    /\ run_pc = "icons"
    /\ icons_pc = "err"
    /\ result' = "Err"
    /\ run_pc' = "done"
    /\ UNCHANGED <<feature, force_generation, gdextension_path, icons_configuration,
                   dependencies_option, manifest_file, toml_string>>
    /\ UNCHANGED <<catalog_vars, libs_vars, scan_vars, icons_vars, deps_vars>>

\* the manifest is serialized; generate_deps is called when there are
\* dependencies
generate_gdextension_file_serialize ==
    /\ \/ run_pc = "serialize"
       \/ run_pc = "icons" /\ icons_pc = "ok"
    /\ toml_string' = to_string_pretty([libraries |-> libraries, icons |-> self_icons])
    /\ IF dependencies_option.some
       THEN /\ dependencies' = dependencies_option.map
            /\ deps_left' = DOMAIN dependencies_option.map
            /\ dependencies_vector' = <<>>
            /\ deps_pc' = "loop"
            /\ run_pc' = "deps"
       ELSE /\ run_pc' = "write"
            /\ UNCHANGED deps_vars
    /\ UNCHANGED <<feature, force_generation, gdextension_path, icons_configuration,
                   dependencies_option, manifest_file, result>>
    /\ UNCHANGED <<catalog_vars, libs_vars, scan_vars, icons_vars>>

\* generate_deps has returned: the dependencies section is added to the
\* document, its values sorted
generate_gdextension_file_deps ==
    /\ run_pc = "deps"
    /\ deps_pc = "ok"
    /\ toml_string' =
           [toml_string EXCEPT
               !.dependencies =
                   [some |-> TRUE, table |-> dependencies_table(EmptyTable,
                                                                dependencies_vector)]]
    /\ run_pc' = "write"
    /\ UNCHANGED <<feature, force_generation, gdextension_path, icons_configuration,
                   dependencies_option, manifest_file, result>>
    /\ UNCHANGED <<catalog_vars, libs_vars, scan_vars, icons_vars, deps_vars>>

\* File::create(gdextension_path)?.write(..)? writes the whole document
generate_gdextension_file_write ==
    /\ run_pc = "write"
    /\ manifest_file' = "written"
    /\ result' = "Ok"
    /\ run_pc' = "done"
    /\ UNCHANGED <<feature, force_generation, gdextension_path, icons_configuration,
                   dependencies_option, toml_string>>
    /\ UNCHANGED <<catalog_vars, libs_vars, scan_vars, icons_vars, deps_vars>>

\* write(..) returns Ok(n) with n less than the length of the document:
\* the count is dropped and the run returns Ok
generate_gdextension_file_write_short ==
    /\ run_pc = "write"
    /\ manifest_file' = "partial"
    /\ result' = "Ok"
    /\ run_pc' = "done"
    /\ UNCHANGED <<feature, force_generation, gdextension_path, icons_configuration,
                   dependencies_option, toml_string>>
    /\ UNCHANGED <<catalog_vars, libs_vars, scan_vars, icons_vars, deps_vars>>

\* File::create(gdextension_path)? fails
generate_gdextension_file_create_fails ==
    /\ run_pc = "write"
    /\ result' = "Err"
    /\ run_pc' = "done"
    /\ UNCHANGED <<feature, force_generation, gdextension_path, icons_configuration,
                   dependencies_option, manifest_file, toml_string>>
    /\ UNCHANGED <<catalog_vars, libs_vars, scan_vars, icons_vars, deps_vars>>

\* write(..)? fails on the file File::create has created or truncated
generate_gdextension_file_write_fails ==
    /\ run_pc = "write"
    /\ manifest_file' = "empty"
    /\ result' = "Err"
    /\ run_pc' = "done"
    /\ UNCHANGED <<feature, force_generation, gdextension_path, icons_configuration,
                   dependencies_option, toml_string>>
    /\ UNCHANGED <<catalog_vars, libs_vars, scan_vars, icons_vars, deps_vars>>

\* the gdextension_path of a run
GDExtensionPaths ==
    {NoPath}
    \cup {SomePath(p) : p \in {<<"g","o","d","o","t","/",".","g","d","e","x","t","e","n","s","i","o","n">>, <<"r","u","s","t",".","g","d","e","x","t","e","n","s","i","o","n","/">>, <<"r","u","s","t",".","t","o","m","l">>,
                               <<"r","u","s","t">>, <<".",".">>, <<>>, <<"r","u","s","t",".">>, <<"r","u","s","t",".","G","D","E","x","t","e","n","s","i","o","n">>,
                               <<"g","o","d","o","t",".","g","d","e","x","t","e","n","s","i","o","n","/","r","u","s","t">>}}

\* the icons_configuration of a run
IconsConfigurations ==
    {NoIconsConfig,
     SomeIconsConfig(IconsConfig(NodeRust(NodeRust_Ferris, <<"r","u","s","t","\\","i","c","o","n","s">>),
                                 IconsCopyStrategy(TRUE, FALSE, FALSE), NoCustomIcons,
                                 "None")),
     SomeIconsConfig(IconsConfig(Node, IconsCopyStrategy(FALSE, TRUE, TRUE),
                                 SomeCustomIcons(TableInsert(EmptyTable, <<"B","a","r">>, <<"B","a","r",".","s","v","g">>)),
                                 "GDExtensionFolder"))}

\* the dependencies of a run
DependenciesOptions ==
    {NoDependencies,
     SomeDependencies([target \in {<<Sys("MacOS"), "Debug", "Generic">>,
                                   <<Sys("Linux"), "Editor", "X86_64">>}
                       |-> <<<<"l","i","b","s","\\","b",".","d","l","l">>, <<"l","i","b","s","/","a",".","s","o">>>>])}

\* a manifest is serialized as soon as from_config has created it, or once
\* generate_libs has returned
serialize_manifest ==
    /\ ~toml_string.some
    /\ \/ libs_pc = "done"
       \/ libs_pc = "loop" /\ system_i = 1 /\ arch_i = 1 /\ mode_i = 1
    /\ toml_string' = to_string_pretty([libraries |-> libraries, icons |-> self_icons])
    /\ UNCHANGED <<feature, force_generation, gdextension_path, icons_configuration,
                   dependencies_option, manifest_file, result, run_pc>>
    /\ UNCHANGED <<catalog_vars, libs_vars, scan_vars, icons_vars, deps_vars>>

-----------------------------------------------------------------------------
(* Specifications *)

CatalogIdle == call = NoCall

LibsIdle ==
    /\ host = "unix"
    /\ base_dir = "ProjectFolder"
    /\ lib_name = <<"r","u","s","t">>
    /\ windows_abi = "MSVC"
    /\ target_dir = <<>>
    /\ libraries = EmptyTable
    /\ system_i = 1
    /\ arch_i = 1
    /\ mode_i = 1
    /\ libs_pc = "idle"

ScanIdle ==
    /\ scan_pc = "idle"
    /\ units_read = 0
    /\ unit_lines = <<>>
    /\ base_class = <<>>
    /\ found_base = FALSE
    /\ base_class_to_nodes = EmptyTable

IconsIdle ==
    /\ sources = <<>>
    /\ icons_config = DefaultIconsConfig
    /\ icons = EmptyTable
    /\ self_icons = NoIcons
    /\ infer_left = {}
    /\ nodes_rust = <<>>
    /\ assets = [i \in 1..3 |-> "absent"]
    /\ icons_pc = "idle"

RunIdle ==
    /\ feature = "none"
    /\ force_generation = FALSE
    /\ gdextension_path = NoPath
    /\ icons_configuration = NoIconsConfig
    /\ dependencies_option = NoDependencies
    /\ manifest_file = "absent"
    /\ toml_string = NoToml
    /\ result = "none"
    /\ run_pc = "idle"

DepsIdle ==
    /\ dependencies = EmptyTable
    /\ deps_left = {}
    /\ dependencies_vector = <<>>
    /\ deps_pc = "idle"

\* generate_libs on the manifest GDExtension::from_config has just created
Init ==
    /\ host \in Hosts
    /\ base_dir \in BaseDirectories
    /\ lib_name \in LibNames
    /\ windows_abi \in WindowsABIs
    /\ target_dir \in TargetDirs(host)
    /\ libraries = EmptyTable
    /\ system_i = 1
    /\ arch_i = 1
    /\ mode_i = 1
    /\ libs_pc = "loop"
    /\ CatalogIdle
    /\ ScanIdle
    /\ IconsIdle
    /\ RunIdle
    /\ DepsIdle

Next == generate_libs_step

Spec == Init /\ [][Next]_vars

\* the catalog functions called with every argument
InitCatalog == CatalogIdle /\ LibsIdle /\ ScanIdle /\ IconsIdle /\ RunIdle /\ DepsIdle

NextCatalog ==
    \/ \E t \in Targets : Call_get_rust_target_triple(t)
    \/ \E t \in Targets : Call_get_godot_target(t)
    \/ \E s \in Systems : Call_get_architectures(s)
    \/ \E s \in Systems, name \in LibNames : Call_get_lib_export_name(s, name)
    \/ \E m \in Modes : Call_Mode_get_rust_name(m)
    \/ \E m \in Modes : Call_Mode_get_godot_name(m)

SpecCatalog == InitCatalog /\ [][NextCatalog]_vars

\* find_children called with an empty map
InitScan ==
    /\ scan_pc = "glob"
    /\ units_read = 0
    /\ unit_lines = <<>>
    /\ base_class = <<>>
    /\ found_base = FALSE
    /\ base_class_to_nodes = EmptyTable
    /\ CatalogIdle
    /\ LibsIdle
    /\ IconsIdle
    /\ RunIdle
    /\ DepsIdle

NextScan ==
    \/ find_children_open
    \/ find_children_open_fails
    \/ \E line \in Lines : find_children_line(line)
    \/ find_children_read_fails
    \/ find_children_end_of_file
    \/ find_children_return

SpecScan == InitScan /\ [][NextScan]_vars

\* generate_icons called on the manifest GDExtension::from_config has just created
InitIcons ==
    /\ sources \in Sources
    /\ icons_config \in IconsConfigs
    /\ assets \in AssetsBefore
    /\ icons = EmptyTable
    /\ self_icons = NoIcons
    /\ infer_left = {}
    /\ nodes_rust = <<>>
    /\ icons_pc = "start"
    /\ host \in Hosts
    /\ base_dir = "ProjectFolder"
    /\ lib_name = <<"r","u","s","t">>
    /\ windows_abi = "MSVC"
    /\ target_dir = <<>>
    /\ libraries = EmptyTable
    /\ system_i = 1
    /\ arch_i = 1
    /\ mode_i = 1
    /\ libs_pc = "idle"
    /\ CatalogIdle
    /\ ScanIdle
    /\ RunIdle
    /\ DepsIdle

NextIcons ==
    \/ generate_icons_start
    \/ glob_open
    \/ glob_open_fails
    \/ file_line
    \/ file_line_fails
    \/ file_end
    \/ glob_end
    \/ generate_icons_scan_fails
    \/ generate_icons_scanned
    \/ \E icon \in infer_left : generate_icons_infer(icon)
    \/ generate_icons_custom
    \/ generate_icons_keep
    \/ generate_icons_copy
    \/ generate_icons_create_fails
    \/ generate_icons_write_fails
    \/ generate_icons_return

SpecIcons == InitIcons /\ [][NextIcons]_vars

\* generate_deps called with every map
InitDeps ==
    /\ dependencies \in DependencyMaps
    /\ deps_left = DOMAIN dependencies
    /\ dependencies_vector = <<>>
    /\ deps_pc = "loop"
    /\ CatalogIdle
    /\ LibsIdle
    /\ ScanIdle
    /\ IconsIdle
    /\ RunIdle

NextDeps ==
    \/ \E target \in deps_left : generate_deps_target(target)
    \/ generate_deps_return

SpecDeps == InitDeps /\ [][NextDeps]_vars

\* generate_gdextension_file called in a crate whose package name is not
\* known to the build, with the default target_dir and windows_abi
InitRun ==
    /\ feature \in Features
    /\ force_generation \in (IF feature = "checked" THEN BOOLEAN ELSE {FALSE})
    /\ gdextension_path \in GDExtensionPaths
    /\ icons_configuration \in IconsConfigurations
    /\ dependencies_option \in DependenciesOptions
    /\ manifest_file \in {"absent", "old"}
    /\ toml_string = NoToml
    /\ result = "none"
    /\ run_pc = "start"
    /\ host \in Hosts
    /\ base_dir \in BaseDirectories
    /\ lib_name = <<"r","u","s","t">>
    /\ windows_abi = "MSVC"
    /\ target_dir = DefaultTargetDir(host)
    /\ libraries = EmptyTable
    /\ system_i = 1
    /\ arch_i = 1
    /\ mode_i = 1
    /\ libs_pc = "idle"
    /\ sources = <<FILE_FOO_BAR, FILE_FOO_BAZ>>
    /\ icons_config = DefaultIconsConfig
    /\ icons = EmptyTable
    /\ self_icons = NoIcons
    /\ infer_left = {}
    /\ nodes_rust = <<>>
    /\ assets \in AssetsBefore
    /\ icons_pc = "idle"
    /\ CatalogIdle
    /\ ScanIdle
    /\ DepsIdle

NextRun ==
    \/ generate_gdextension_file_begin
    \/ generate_libs_step
    \/ generate_gdextension_file_icons
    \/ NextIcons
    \/ generate_gdextension_file_icons_fail
    \/ generate_gdextension_file_serialize
    \/ NextDeps
    \/ generate_gdextension_file_deps
    \/ generate_gdextension_file_write
    \/ generate_gdextension_file_write_short
    \/ generate_gdextension_file_create_fails
    \/ generate_gdextension_file_write_fails

SpecRun == InitRun /\ [][NextRun]_vars

\* a manifest made with from_config, filled with generate_libs and
\* serialized by the caller
InitManifest ==
    /\ host \in Hosts
    /\ base_dir \in BaseDirectories
    /\ lib_name \in LibNames
    /\ windows_abi \in WindowsABIs
    /\ target_dir = DefaultTargetDir(host)
    /\ libraries = EmptyTable
    /\ system_i = 1
    /\ arch_i = 1
    /\ mode_i = 1
    /\ libs_pc = "loop"
    /\ CatalogIdle
    /\ ScanIdle
    /\ IconsIdle
    /\ RunIdle
    /\ DepsIdle

NextManifest ==
    \/ generate_libs_step
    \/ serialize_manifest

SpecManifest == InitManifest /\ [][NextManifest]_vars

-----------------------------------------------------------------------------
(* Properties of the target catalogs, checked under SpecCatalog *)

\* the architecture of target t is in the list of its system
IsSupported(t) == t[3] \in Range(get_architectures(t[1]))

EndsWith(s, p) == Len(p) <= Len(s) /\ SubSeq(s, Len(s) - Len(p) + 1, Len(s)) = p

\* C1: for a Target whose Architecture is in the list of its System,
\* get_rust_target_triple of a Generic one is the empty string, and
\* get_godot_target is "{system}.{mode}" for a Generic one and
\* "{system}.{mode}.{architecture}" for any other, with the Godot names.
C1_TargetResolution ==
    /\ (call.op = "get_rust_target_triple" /\ IsSupported(call.arg)
            /\ call.arg[3] = "Generic")
        => call.ret = <<>>
    /\ (call.op = "get_godot_target" /\ IsSupported(call.arg))
        => call.ret =
             IF call.arg[3] = "Generic"
             THEN System_get_name(call.arg[1]) \o <<".">> \o Mode_get_godot_name(call.arg[2])
             ELSE System_get_name(call.arg[1]) \o <<".">> \o Mode_get_godot_name(call.arg[2])
                  \o <<".">> \o Architecture_get_godot_name(call.arg[3])

\* the example of the specification: (MacOS, Release, Arm64) resolved
C1_Witness ==
    /\ call.op = "get_godot_target"
    /\ call.arg = <<Sys("MacOS"), "Release", "Arm64">>
    /\ call.ret = <<"m","a","c","o","s",".","r","e","l","e","a","s","e",".","a","r","m","_","6","4">>

\* C4: the triple of an Android Target with a non-Generic Architecture is
\* "{rust name}-linux-android", followed by "eabi" exactly when the
\* Architecture is Armv7, whose triple is "armv7-linux-androideabi".
C4_AndroidTriple ==
    (call.op = "get_rust_target_triple" /\ call.arg[1].tag = "Android"
        /\ call.arg[3] # "Generic")
    => /\ call.ret = Architecture_get_rust_name(call.arg[3]) \o <<"-","l","i","n","u","x","-","a","n","d","r","o","i","d">>
                     \o (IF call.arg[3] = "Armv7" THEN <<"e","a","b","i">> ELSE <<>>)
       /\ EndsWith(call.ret, <<"e","a","b","i">>) <=> call.arg[3] = "Armv7"
       /\ call.arg[3] = "Armv7" => call.ret = <<"a","r","m","v","7","-","l","i","n","u","x","-","a","n","d","r","o","i","d","e","a","b","i">>

C4_Witness ==
    /\ call.op = "get_rust_target_triple"
    /\ call.arg[1].tag = "Android"
    /\ call.arg[3] = "Armv7"
    /\ call.ret = <<"a","r","m","v","7","-","l","i","n","u","x","-","a","n","d","r","o","i","d","e","a","b","i">>

\* the suffix the claim gives for each system other than Android
TripleSuffix(s) ==
    CASE s.tag = "IOS" -> <<"-","a","p","p","l","e","-","i","o","s">>
      [] s.tag = "Linux" -> <<"-","u","n","k","n","o","w","n","-","l","i","n","u","x","-","g","n","u">>
      [] s.tag = "MacOS" -> <<"-","a","p","p","l","e","-","d","a","r","w","i","n">>
      [] s.tag = "Web" -> <<"-","u","n","k","n","o","w","n","-","e","m","s","c","r","i","p","t","e","n">>
      [] s.tag = "Windows" ->
            <<"-","p","c","-","w","i","n","d","o","w","s","-">> \o (CASE s.abi = "MSVC" -> <<"m","s","v","c">>
                                  [] s.abi = "MinGW" -> <<"g","n","u">>
                                  [] s.abi = "LLVM" -> <<"g","n","u","l","l","v","m">>)

\* C5: for a non-Generic supported Architecture A the triple is "{A}-apple-ios"
\* for iOS, "{A}-unknown-linux-gnu" for Linux, "{A}-apple-darwin" for MacOS,
\* "{A}-unknown-emscripten" for Web and "{A}-pc-windows-{msvc|gnu|gnullvm}" for
\* Windows, whatever the Mode is.
C5_SystemTriples ==
    (call.op = "get_rust_target_triple" /\ call.arg[1].tag # "Android"
        /\ call.arg[3] # "Generic" /\ IsSupported(call.arg))
    => /\ call.ret = Architecture_get_rust_name(call.arg[3]) \o TripleSuffix(call.arg[1])
       /\ \A m \in Modes :
            get_rust_target_triple(<<call.arg[1], m, call.arg[3]>>) = call.ret

C5_Witness ==
    /\ call.op = "get_rust_target_triple"
    /\ call.arg = <<Windows("MinGW"), "Editor", "X86_64">>
    /\ call.ret = <<"x","8","6","_","6","4","-","p","c","-","w","i","n","d","o","w","s","-","g","n","u">>

\* C6: get_architectures of every System, and of Windows with every ABI, is a
\* non-empty list that contains Generic.
C6_GenericSupported ==
    call.op = "get_architectures"
    => /\ Len(call.ret) > 0
       /\ "Generic" \in Range(call.ret)

C6_Witness ==
    /\ call.op = "get_architectures"
    /\ call.arg = Windows("LLVM")
    /\ call.ret = <<"Generic", "Arm64", "X86_32", "X86_64">>

\* C7: Editor and Debug have the same get_rust_name, and the get_godot_name of
\* each Mode differs from the one of the two other Modes.
C7_ModeNames ==
    /\ (call.op = "Mode_get_rust_name" /\ call.arg \in {"Debug", "Editor"})
        => /\ call.ret = Mode_get_rust_name("Debug")
           /\ call.ret = Mode_get_rust_name("Editor")
    /\ call.op = "Mode_get_godot_name"
        => \A m \in Modes \ {call.arg} : Mode_get_godot_name(m) # call.ret

C7_Witness ==
    /\ call.op = "Mode_get_rust_name"
    /\ call.arg = "Editor"
    /\ call.ret = <<"d","e","b","u","g">>

\* C9: get_lib_export_name(n) is prefix + n + "." + extension: the prefix is
\* "lib" for iOS, Linux and MacOS and empty for Android, Web and Windows; the
\* extension is "so" for Android and Linux, "ios.framework" for iOS, "dylib"
\* for MacOS, "wasm" for Web and "dll" for Windows.
C9_LibExportName ==
    call.op = "get_lib_export_name"
    => LET tag == call.arg[1].tag
           prefix == IF tag \in {"IOS", "Linux", "MacOS"} THEN <<"l","i","b">> ELSE <<>>
           extension == CASE tag = "Android" -> <<"s","o">>
                          [] tag = "Linux" -> <<"s","o">>
                          [] tag = "IOS" -> <<"i","o","s",".","f","r","a","m","e","w","o","r","k">>
                          [] tag = "MacOS" -> <<"d","y","l","i","b">>
                          [] tag = "Web" -> <<"w","a","s","m">>
                          [] tag = "Windows" -> <<"d","l","l">>
       IN call.ret = prefix \o call.arg[2] \o <<".">> \o extension

C9_Witness ==
    /\ call.op = "get_lib_export_name"
    /\ call.arg = <<Sys("IOS"), <<"m","y","_","l","i","b">>>>
    /\ call.ret = <<"l","i","b","m","y","_","l","i","b",".","i","o","s",".","f","r","a","m","e","w","o","r","k">>

-----------------------------------------------------------------------------
(* Properties of generate_libs, checked under Spec *)

\* the Targets generate_libs enumerates for a Windows ABI
EnumeratedTargets(abi) ==
    {t \in Targets : t[1] \in Range(get_systems(abi)) /\ IsSupported(t)}

RECURSIVE EntriesOfSystems(_, _)
\* the sum over the first n systems of |architectures| x |modes|
EntriesOfSystems(abi, n) ==
    IF n = 0 THEN 0
    ELSE EntriesOfSystems(abi, n - 1)
         + Len(get_architectures(get_systems(abi)[n])) * Cardinality(Modes)

\* the number of inserts generate_libs has made
InsertsMade ==
    IF libs_pc = "done" THEN EntriesOfSystems(windows_abi, Len(get_systems(windows_abi)))
    ELSE EntriesOfSystems(windows_abi, system_i - 1)
         + (arch_i - 1) * Cardinality(Modes) + (mode_i - 1)

\* C2: every insert of generate_libs adds a key of its own, so the table of a
\* fresh manifest holds as many entries as inserts were made, and at the end
\* the sum over the six Systems of |get_architectures| x 3, which is 60.
C2_MatrixEntries ==
    libs_pc \in {"loop", "done"}
    => /\ Cardinality(DOMAIN libraries) = InsertsMade
       /\ libs_pc = "done"
            => /\ Cardinality(DOMAIN libraries)
                    = EntriesOfSystems(windows_abi, Len(get_systems(windows_abi)))
               /\ Cardinality(DOMAIN libraries) = (5 + 2 + 4 + 3 + 2 + 4) * 3
               /\ \A t \in EnumeratedTargets(windows_abi) :
                    get_godot_target(t) \in DOMAIN libraries

C2_Witness ==
    /\ libs_pc = "done"
    /\ windows_abi = "MinGW"
    /\ Cardinality(DOMAIN libraries) = 60

\* the marker the claims give for a base directory
Marker(b) == IF b = "ProjectFolder" THEN <<"r","e","s",":","/","/">> ELSE <<>>

AfterMarker(path) == SubSeq(path, Len(Marker(base_dir)) + 1, Len(path))

\* the directories and the file of the path of target t, in order
PathSegments(t) ==
    IF t[3] = "Generic"
    THEN <<target_dir, Mode_get_rust_name(t[2]), get_lib_export_name(t[1], lib_name)>>
    ELSE <<target_dir, get_rust_target_triple(t), Mode_get_rust_name(t[2]),
           get_lib_export_name(t[1], lib_name)>>

\* every backslash as a forward slash
ForwardSlashes(p) == [i \in 1..Len(p) |-> IF p[i] = "\\" THEN "/" ELSE p[i]]

\* C3: the path recorded for an enumerated Target is, after the marker,
\* target_dir / get_rust_name(mode) / get_lib_export_name(lib_name) for a
\* Generic Architecture and target_dir / triple / get_rust_name(mode) /
\* get_lib_export_name(lib_name) otherwise, written with forward slashes.
C3_RecordedPath ==
    \A t \in EnumeratedTargets(windows_abi) :
        get_godot_target(t) \in DOMAIN libraries
        => AfterMarker(libraries[get_godot_target(t)])
             = ForwardSlashes(PathFromIter(host, PathSegments(t)))

C3_Witness ==
    /\ libs_pc = "done"
    /\ libraries[<<"l","i","n","u","x",".","d","e","b","u","g">>] = <<"r","e","s",":","/","/",".",".","/","r","u","s","t","/","t","a","r","g","e","t","/","d","e","b","u","g","/","l","i","b","r","u","s","t",".","s","o">>
    /\ libraries[<<"l","i","n","u","x",".","e","d","i","t","o","r",".","x","8","6","_","6","4">>]
         = <<"r","e","s",":","/","/",".",".","/","r","u","s","t","/","t","a","r","g","e","t","/","x","8","6","_","6","4","-","u","n","k","n","o","w","n","-","l","i","n","u","x","-","g","n","u","/","d","e","b","u","g","/","l","i","b","r","u","s","t",".","s","o">>

\* C8: every value of the table starts with the marker of base_dir ("res://"
\* for ProjectFolder, "" for GDExtensionFolder) and holds no backslash after
\* it: it is the joined path with each backslash turned into a forward slash
\* and every other character kept.
C8_NormalizedPaths ==
    /\ \A k \in DOMAIN libraries :
         /\ StartsWith(libraries[k], Marker(base_dir))
         /\ "\\" \notin Range(AfterMarker(libraries[k]))
    /\ \A t \in EnumeratedTargets(windows_abi) :
         get_godot_target(t) \in DOMAIN libraries
         => LET joined == PathFromIter(host, PathSegments(t))
                written == AfterMarker(libraries[get_godot_target(t)])
            IN /\ Len(written) = Len(joined)
               /\ \A i \in 1..Len(joined) :
                    /\ joined[i] = "\\" => written[i] = "/"
                    /\ joined[i] # "\\" => written[i] = joined[i]

\* a run on Windows, where the joined paths hold backslashes
C8_Witness ==
    /\ libs_pc = "done"
    /\ host = "windows"
    /\ target_dir = <<".",".","\\","r","u","s","t","\\","t","a","r","g","e","t">>
    /\ base_dir = "ProjectFolder"
    /\ libraries[<<"w","i","n","d","o","w","s",".","r","e","l","e","a","s","e",".","x","8","6","_","6","4">>]
         = <<"r","e","s",":","/","/",".",".","/","r","u","s","t","/","t","a","r","g","e","t","/","x","8","6","_","6","4","-","p","c","-","w","i","n","d","o","w","s","-","m","s","v","c","/","r","e","l","e","a","s","e","/","r","u","s","t",".","d","l","l">>

-----------------------------------------------------------------------------
(* Properties of find_children, checked under SpecScan *)

\* a line with neither a base declaration nor the entity marker
IsUnrelatedLine(line) ==
    ~(Contains(line, <<"b","a","s","e">>) /\ Contains(line, <<"=">>)) /\ ~Contains(line, <<"s","t","r","u","c","t">>)

\* the first file read so far is "base = Foo," and then "struct Bar {", with
\* nothing but unrelated lines before, between and after the two
IsFooBarUnit ==
    /\ units_read = 1
    /\ \E b, e \in 1..Len(unit_lines) :
         /\ b < e
         /\ unit_lines[b] = <<"b","a","s","e"," ","="," ","F","o","o",",">>
         /\ unit_lines[e] = <<"s","t","r","u","c","t"," ","B","a","r"," ","{">>
         /\ \A i \in 1..Len(unit_lines) : i \notin {b, e} => IsUnrelatedLine(unit_lines[i])

\* C10: the scan of a unit made of "base = Foo," and, later, "struct Bar {",
\* with unrelated lines around them, does not abort and the map holds
\* Foo -> <<Bar>>.
C10_FooBar ==
    IsFooBarUnit
    => /\ scan_pc # "panicked"
       /\ <<"F","o","o">> \in DOMAIN base_class_to_nodes
       /\ base_class_to_nodes[<<"F","o","o">>] = <<<<"B","a","r">>>>

-----------------------------------------------------------------------------
(* Properties of find_children and generate_icons *)

\* the line holds "base" and "="
HasBaseMarker(line) == Contains(line, <<"b","a","s","e">>) /\ Contains(line, <<"=">>)

\* the line holds a marker the scanner looks for in its state, and the
\* pattern of that marker finds no name in it
MarkerWithoutName(base_seen, line) ==
    \/ HasBaseMarker(line) /\ ~base_class_regex(line).found
    \/ /\ base_seen
       /\ ~HasBaseMarker(line)
       /\ Contains(line, <<"s","t","r","u","c","t">>)
       /\ ~struct_regex(line).found

\* C12: reading a line that carries a marker without a name leaves
\* base_class, found_base and the map as they were, and the scan goes on
\* with the next line of the file.
C12_LineSkipped ==
    [][(/\ scan_pc = "lines"
        /\ Len(unit_lines') = Len(unit_lines) + 1
        /\ MarkerWithoutName(found_base, unit_lines'[Len(unit_lines')]))
       => /\ scan_pc' = "lines"
          /\ base_class' = base_class
          /\ found_base' = found_base
          /\ base_class_to_nodes' = base_class_to_nodes]_vars

C12_Witness ==
    /\ scan_pc = "lines"
    /\ unit_lines = <<LINE_BASE_TIGHT, LINE_STRUCT_NO_NAME, LINE_STRUCT>>
    /\ base_class_to_nodes = TableInsert(EmptyTable, <<"F","o","o">>, <<<<"B","a","r">>>>)

\* a file that declares the base Foo and then the struct `name`
IsFooUnit(file, name) ==
    /\ Len(file) >= 2
    /\ file[1] \in {LINE_BASE_SPACED, LINE_BASE_TIGHT}
    /\ file[Len(file)] \in {<<"s","t","r","u","c","t"," ">> \o name \o <<" ","{">>, <<"s","t","r","u","c","t"," ">> \o name \o <<";">>}
    /\ \A i \in 2..(Len(file) - 1) : file[i] = LINE_BLANK

\* the nodes the map holds, whatever their base class
AllNodes == UNION {Range(base_class_to_nodes[b]) : b \in DOMAIN base_class_to_nodes}

\* C11: found_base is set only by a base declaration of the file being
\* read; a struct of a file without a base declaration is attributed to
\* no base class of an earlier file; and two files that declare the base
\* Foo, one followed by the struct Bar and one by the struct Baz, are
\* scanned to the end with both structs under Foo.
C11_UnitsIndependent ==
    /\ (scan_pc = "lines" /\ found_base)
        => \E i \in 1..Len(unit_lines) :
              IsBaseLine(unit_lines[i]) /\ base_class_regex(unit_lines[i]).found
    /\ (scan_pc = "ok" /\ sources = <<FILE_FOO, FILE_BAZ>>)
        => <<"B","a","z">> \notin AllNodes
    /\ (Len(sources) = 2 /\ IsFooUnit(sources[1], <<"B","a","r">>) /\ IsFooUnit(sources[2], <<"B","a","z">>))
        => /\ scan_pc # "panicked"
           /\ scan_pc = "ok"
               => /\ <<"F","o","o">> \in DOMAIN base_class_to_nodes
                  /\ base_class_to_nodes[<<"F","o","o">>] = <<<<"B","a","r">>, <<"B","a","z">>>>

\* the string relative_directory stands for
RelativeDir ==
    IF icons_config.relative_directory = "GDExtensionFolder" THEN <<>> ELSE <<"r","e","s",":","/","/">>

\* C13: when generate_icons has returned, every node of custom_icons has
\* the icon relative_dir + base_directory/custom_directory/icon, written
\* with forward slashes, whether or not the scan had found that node.
C13_OverridesWin ==
    (icons_pc = "ok" /\ icons_config.custom_icons.some)
    => /\ self_icons.some
       /\ \A node \in DOMAIN icons_config.custom_icons.map :
             /\ node \in DOMAIN self_icons.table
             /\ self_icons.table[node]
                  = RelativeDir
                    \o ForwardSlashes(<<"a","d","d","o","n","s","/","r","u","s","t","/">> \o icons_config.custom_icons.map[node])

C13_Witness ==
    /\ icons_pc = "ok"
    /\ icons_config.default = BaseClass
    /\ icons_config.relative_directory = "None"
    /\ <<"B","a","r">> \in AllNodes
    /\ icons_config.custom_icons.some
    /\ <<"B","a","r">> \in DOMAIN icons_config.custom_icons.map
    /\ self_icons.table[<<"B","a","r">>] = <<"r","e","s",":","/","/","a","d","d","o","n","s","/","r","u","s","t","/","B","a","r",".","s","v","g">>

\* the icon the default policy gives to the nodes of base class b
PolicyIcon(b) ==
    CASE icons_config.default.kind = "BaseClass" ->
            RelativeDir \o <<"a","d","d","o","n","s","/","e","d","i","t","o","r","/">> \o b \o <<".","s","v","g">>
      [] icons_config.default.kind = "Custom" ->
            RelativeDir \o <<"a","d","d","o","n","s","/">> \o ForwardSlashes(icons_config.default.path)
      [] icons_config.default.kind = "NodeRust" ->
            RelativeDir \o <<"a","d","d","o","n","s","/">> \o ForwardSlashes(icons_config.default.path)
            \o <<"/">> \o NODES_RUST_FILENAMES[icons_config.default.node_rust]

\* the base classes whose list holds the node
BasesOf(node) ==
    {b \in DOMAIN base_class_to_nodes : node \in Range(base_class_to_nodes[b])}

\* C20: with the default Node no file is scanned and the table
\* generate_icons returns holds the custom icons and nothing else; with
\* any other default, once the map has been visited the table holds one
\* entry for every node of the map, the icon its policy gives to a base
\* class of that node.
C20_DefaultPolicy ==
    /\ (icons_pc # "idle" /\ icons_config.default = Node)
        => /\ scan_pc = "idle"
           /\ units_read = 0
           /\ icons_pc = "ok"
               => /\ self_icons.some
                  /\ DOMAIN self_icons.table = DOMAIN icons_config.custom_icons.map
    /\ (icons_pc = "custom" /\ icons_config.default # Node)
        => /\ DOMAIN icons = AllNodes
           /\ \A node \in AllNodes : \E b \in BasesOf(node) : icons[node] = PolicyIcon(b)

C20_Witness ==
    /\ icons_pc = "custom"
    /\ icons_config.default = BaseClass
    /\ icons_config.relative_directory = "None"
    /\ DOMAIN base_class_to_nodes = {<<"F","o","o">>, <<"N","o","d","e">>}
    /\ icons = TableInsert(TableInsert(EmptyTable, <<"B","a","z">>, <<"r","e","s",":","/","/","a","d","d","o","n","s","/","e","d","i","t","o","r","/","F","o","o",".","s","v","g">>),
                            <<"B","a","r">>, <<"r","e","s",":","/","/","a","d","d","o","n","s","/","e","d","i","t","o","r","/","N","o","d","e",".","s","v","g">>)

-----------------------------------------------------------------------------
(* Properties of manifests, generate_gdextension_file and generate_deps *)

NamesGDExtension(p) == EndsWith(StripSeparators(host, p), <<".","g","d","e","x","t","e","n","s","i","o","n">>)

\* gdextension_path is None or names a .gdextension file
PathAccepted == ~gdextension_path.some \/ NamesGDExtension(gdextension_path.path)

\* nothing has been generated and no file has been written
NothingDone ==
    /\ libraries = EmptyTable
    /\ libs_pc = "idle"
    /\ scan_pc = "idle"
    /\ icons_pc = "idle"
    /\ deps_pc = "idle"
    /\ ~toml_string.some
    /\ manifest_file \in {"absent", "old"}
    /\ \A i \in 1..3 : assets[i] \in {"absent", "stale"}

\* C15: with a gdextension_path that does not name a .gdextension file the
\* run returns InvalidInput with nothing generated and nothing written;
\* with None or a path that names one it never returns InvalidInput.
C15_PathCheck ==
    /\ (run_pc # "start" /\ ~PathAccepted)
        => /\ run_pc = "done"
           /\ result = "InvalidInput"
           /\ NothingDone
    /\ PathAccepted => result # "InvalidInput"

C15_Witness ==
    /\ run_pc = "done"
    /\ result = "InvalidInput"
    /\ gdextension_path = SomePath(<<"r","u","s","t">>)
    /\ manifest_file = "old"

\* C16: a run that has returned has either returned Ok with the whole
\* document in the manifest file (or with the file it has found, when the
\* generation is skipped), or an error with the manifest file and the icon
\* files as they were.
C16_NoPartialSuccess ==
    run_pc = "done"
    => \/ result = "Ok" /\ manifest_file \in {"written", "old"}
       \/ /\ result \in {"Err", "InvalidInput"}
          /\ manifest_file \in {"absent", "old"}
          /\ \A i \in 1..3 : assets[i] \in {"absent", "stale"}

\* C17: without checked_generation and forced_generation, no step of a run
\* changes a manifest file that exists, and the run returns Ok.
C17_WrittenWhenAbsent ==
    [][(feature = "none" /\ manifest_file = "old")
       => /\ manifest_file' = "old"
          /\ (run_pc' = "done" /\ PathAccepted) => result' = "Ok"]_vars

\* C18: with checked_generation and an accepted path, the first step of the
\* run returns Ok and changes nothing else when force_generation is false
\* and the manifest file exists, and goes on to generate_libs otherwise.
C18_CheckedGeneration ==
    [][(feature = "checked" /\ run_pc = "start" /\ PathAccepted)
       => IF ~force_generation /\ manifest_file = "old"
          THEN /\ run_pc' = "done"
               /\ result' = "Ok"
               /\ manifest_file' = "old"
               /\ NothingDone'
               /\ UNCHANGED <<libs_vars, scan_vars, icons_vars, deps_vars>>
          ELSE /\ run_pc' = "libs"
               /\ libs_pc' = "loop"
               /\ result' = "none"]_vars

C18_Witness ==
    /\ feature = "checked"
    /\ ~force_generation
    /\ run_pc = "done"
    /\ result = "Ok"
    /\ manifest_file = "old"
    /\ icons_configuration.some
    /\ NothingDone

\* the entries of an inline table whose key is the given one
ValuesOf(table, key) == {table[j][2] : j \in {i \in 1..Len(table) : table[i][1] = key}}

\* C19: every target visited has its table in dependencies_vector, and
\* that table maps each of its paths to "Contents/Frameworks" when the
\* System of the target is MacOS and to "" otherwise, whatever its Mode and
\* Architecture.
C19_DependencyFolder ==
    \A target \in DOMAIN dependencies \ deps_left :
        \E i \in 1..Len(dependencies_vector) :
            /\ dependencies_vector[i][1] = get_godot_target(target)
            /\ \A p \in 1..Len(dependencies[target]) :
                 ValuesOf(dependencies_vector[i][2],
                          <<"r","e","s",":","/","/">> \o ForwardSlashes(dependencies[target][p]))
                   = {IF target[1] = Sys("MacOS") THEN <<"C","o","n","t","e","n","t","s","/","F","r","a","m","e","w","o","r","k","s">> ELSE <<>>}

C19_Witness ==
    /\ deps_pc = "ok"
    /\ \E i, j \in 1..Len(dependencies_vector) :
         /\ dependencies_vector[i] =
              <<<<"m","a","c","o","s",".","r","e","l","e","a","s","e",".","a","r","m","_","6","4">>,
                <<(<<<<"r","e","s",":","/","/","l","i","b","s","/","b",".","d","l","l">>, <<"C","o","n","t","e","n","t","s","/","F","r","a","m","e","w","o","r","k","s">>>>),
                  (<<<<"r","e","s",":","/","/","l","i","b","s","/","a",".","s","o">>, <<"C","o","n","t","e","n","t","s","/","F","r","a","m","e","w","o","r","k","s">>>>)>>>>
         /\ dependencies_vector[j] = <<<<"l","i","n","u","x",".","e","d","i","t","o","r",".","x","8","6","_","6","4">>, <<(<<<<"r","e","s",":","/","/","l","i","b","s","/","a",".","s","o">>, <<>>>>)>>>>


-----------------------------------------------------------------------------
(* Properties of the scanner over the files of a crate *)

\* a step of the scanner that reads one more line of the file
ReadsLine == scan_pc = "lines" /\ Len(unit_lines') = Len(unit_lines) + 1

\* the line a ReadsLine step reads
LineRead == unit_lines'[Len(unit_lines')]

\* the line is a documentation comment, at column 0 or indented
IsDocComment(line) == StartsWith(TrimStart(line), <<"/","/","/">>)

\* C21: reading a documentation-comment line, indented or not, leaves
\* found_base and the map as they were.
C21_DocCommentsIgnored ==
    [][(ReadsLine /\ IsDocComment(LineRead))
       => /\ found_base' = found_base
          /\ base_class_to_nodes' = base_class_to_nodes]_vars

\* the identifier that follows the first occurrence of marker in line, the
\* spaces and the "=" between the two skipped
IdentifierAfter(line, marker) ==
    LET at == CHOOSE i \in 1..Len(line) :
                  OccursAt(line, marker, i) /\ \A j \in 1..(i - 1) : ~OccursAt(line, marker, j)
        from == SkipWhile(line, at + Len(marker), SpaceChars \cup {"="})
    IN SubSeq(line, from, SkipWhile(line, from, WordChars) - 1)

\* C22: the key a recognised base declaration creates is the identifier
\* after "base", and the entity a recognised struct line records is the
\* identifier after "struct", also when the identifier holds the marker.
C22_ExactIdentifier ==
    [][ReadsLine
       => /\ (IsBaseLine(LineRead) /\ base_class_regex(LineRead).found)
              => IdentifierAfter(LineRead, <<"b","a","s","e">>) \in DOMAIN base_class_to_nodes'
          /\ (IsStructLine(LineRead) /\ struct_regex(LineRead).found /\ scan_pc' = "lines")
              => \E b \in DOMAIN base_class_to_nodes :
                    base_class_to_nodes'[b]
                      = Append(base_class_to_nodes[b], IdentifierAfter(LineRead, <<"s","t","r","u","c","t">>))]_vars

\* the recognised base declarations among the lines
BaseDeclarations(lines) ==
    {i \in 1..Len(lines) : IsBaseLine(lines[i]) /\ base_class_regex(lines[i]).found}

IsFooNodeBarUnit(file) ==
    /\ Len(file) = 3
    /\ file[1] = LINE_BASE_TIGHT
    /\ file[2] \in {LINE_BASE_NODE, LINE_BASE_NODE_SPACED}
    /\ file[3] = LINE_STRUCT

\* C26: in a file that declares the base Foo, then the base Node, then
\* the struct Bar, the scanner waits for a struct of Node after the second
\* declaration, the scan does not abort, and at the end of the file Bar is
\* under Node and the list of Foo is empty.
C26_SecondBase ==
    (Len(sources) = 1 /\ IsFooNodeBarUnit(sources[1]) /\ units_read = 1)
    => /\ scan_pc # "panicked"
       /\ (scan_pc = "lines" /\ Len(unit_lines) = 2)
           => found_base /\ Trim(base_class) = <<"N","o","d","e">>
       /\ (scan_pc = "lines" /\ Len(unit_lines) = 3)
           => /\ ~found_base
              /\ base_class_to_nodes
                   = TableInsert(TableInsert(EmptyTable, <<"F","o","o">>, <<>>), <<"N","o","d","e">>, <<<<"B","a","r">>>>)

\* C25: while the scanner waits for a struct of a base class, the name
\* it looks up, base_class, is a key of the map, and no line makes the
\* scan abort on a missing key.
C25_KeyPresent ==
    /\ (scan_pc = "lines" /\ found_base) => base_class \in DOMAIN base_class_to_nodes
    /\ scan_pc # "panicked"

\* the number of nodes the map holds, over all base classes
EntityCount ==
    Cardinality(UNION {{<<b, i>> : i \in 1..Len(base_class_to_nodes[b])} :
                          b \in DOMAIN base_class_to_nodes})

\* C27: a struct line read while no base declaration is pending changes
\* neither the map nor found_base; a step records at most one node, and
\* only by reading a line while a base declaration is pending, which it
\* then no longer is; and the nodes recorded from the first file are never
\* more than the base declarations read from it.
C27_AtMostOneEntity ==
    [][/\ (/\ ReadsLine
           /\ ~found_base
           /\ Contains(LineRead, <<"s","t","r","u","c","t">>)
           /\ ~HasBaseMarker(LineRead))
           => /\ base_class_to_nodes' = base_class_to_nodes
              /\ found_base' = FALSE
       /\ EntityCount' <= EntityCount + 1
       /\ EntityCount' = EntityCount + 1 => (ReadsLine /\ found_base /\ ~found_base')
       /\ units_read' = 1
           => EntityCount' <= Cardinality(BaseDeclarations(unit_lines'))]_vars

C27_Witness ==
    /\ scan_pc = "lines"
    /\ units_read = 1
    /\ unit_lines = <<LINE_BASE_TIGHT, LINE_STRUCT, LINE_STRUCT>>
    /\ ~found_base
    /\ base_class_to_nodes = TableInsert(EmptyTable, <<"F","o","o">>, <<<<"B","a","r">>>>)

-----------------------------------------------------------------------------
(* Properties of the modes in generate_libs, checked under Spec *)

\* the keys of the Debug, Editor and Release entries of a system and architecture
ModeKeys(system, architecture) ==
    [mode \in Modes |-> get_godot_target(<<system, mode, architecture>>)]

\* C28: when generate_libs has returned, every System and every
\* Architecture of its list have three entries under three different
\* keys; the Debug and the Editor entry hold the same path and the Release
\* entry holds another one.
C28_EditorSharesDebug ==
    libs_pc = "done"
    => \A system \in Range(get_systems(windows_abi)) :
         \A architecture \in Range(get_architectures(system)) :
           LET key == ModeKeys(system, architecture)
           IN /\ Cardinality({key[mode] : mode \in Modes}) = 3
              /\ \A mode \in Modes : key[mode] \in DOMAIN libraries
              /\ libraries[key["Debug"]] = libraries[key["Editor"]]
              /\ libraries[key["Release"]] # libraries[key["Debug"]]

C28_Witness ==
    /\ libs_pc = "done"
    /\ libraries[<<"l","i","n","u","x",".","d","e","b","u","g",".","x","8","6","_","6","4">>]
         = <<"r","e","s",":","/","/",".",".","/","r","u","s","t","/","t","a","r","g","e","t","/","x","8","6","_","6","4","-","u","n","k","n","o","w","n","-","l","i","n","u","x","-","g","n","u","/","d","e","b","u","g","/","l","i","b","r","u","s","t",".","s","o">>
    /\ libraries[<<"l","i","n","u","x",".","e","d","i","t","o","r",".","x","8","6","_","6","4">>]
         = <<"r","e","s",":","/","/",".",".","/","r","u","s","t","/","t","a","r","g","e","t","/","x","8","6","_","6","4","-","u","n","k","n","o","w","n","-","l","i","n","u","x","-","g","n","u","/","d","e","b","u","g","/","l","i","b","r","u","s","t",".","s","o">>
    /\ libraries[<<"l","i","n","u","x",".","r","e","l","e","a","s","e",".","x","8","6","_","6","4">>]
         = <<"r","e","s",":","/","/",".",".","/","r","u","s","t","/","t","a","r","g","e","t","/","x","8","6","_","6","4","-","u","n","k","n","o","w","n","-","l","i","n","u","x","-","g","n","u","/","r","e","l","e","a","s","e","/","l","i","b","r","u","s","t",".","s","o">>

-----------------------------------------------------------------------------
(* Properties of generate_deps *)

\* C29: generate_deps does not abort, and when it has returned its vector
\* holds one pair for every Target of the map, whose table has one entry
\* for each path of that Target, none when the Target has no path.
C29_DepsTotal ==
    /\ deps_pc # "panicked"
    /\ deps_pc = "ok"
        => /\ Len(dependencies_vector) = Cardinality(DOMAIN dependencies)
           /\ \A target \in DOMAIN dependencies :
                \E i \in 1..Len(dependencies_vector) :
                    /\ dependencies_vector[i][1] = get_godot_target(target)
                    /\ Len(dependencies_vector[i][2]) = Len(dependencies[target])

\* C24: every key of a dependencies table of the document is the marker
\* of the base_dir of the run followed by a path of that target with its
\* backslashes turned into forward slashes, and every path has its key.
C24_DependencyKeys ==
    (toml_string.some /\ toml_string.dependencies.some)
    => \A target \in DOMAIN dependencies_option.map :
         LET table == toml_string.dependencies.table[get_godot_target(target)]
         IN {table[i][1] : i \in 1..Len(table)}
              = {Marker(base_dir) \o ForwardSlashes(path) :
                     path \in Range(dependencies_option.map[target])}

-----------------------------------------------------------------------------
(* Properties of the icon table *)

\* the orders in which the keys of a map can be visited
VisitOrders(keys) == {order \in [1..Cardinality(keys) -> keys] : Range(order) = keys}

\* the table after the base classes have been visited in the given order
RECURSIVE InferredIcons(_, _)
InferredIcons(table, order) ==
    IF order = <<>> THEN table
    ELSE InferredIcons(InsertNodes(table, base_class_to_nodes[Head(order)],
                                   default_icon_path(Head(order))),
                       Tail(order))

\* the table returned when the base classes are visited in the given order
ReturnedIcons(order) ==
    IF icons_config.custom_icons.some
    THEN InsertCustomIcons(InferredIcons(EmptyTable, order), icons_config.custom_icons.map)
    ELSE InferredIcons(EmptyTable, order)

\* C30: the table generate_icons returns is the same for every order in
\* which the base classes of the map can be visited.
C30_OrderIndependent ==
    (icons_pc = "ok" /\ icons_config.default # Node)
    => \A order \in VisitOrders(DOMAIN base_class_to_nodes) :
          self_icons.table = ReturnedIcons(order)

====
